---- MODULE Spec2Model ----
(***************************************************************************)
(* Model of the Geo Query Engine of src/src/services/nominatim.ts          *)
(* (queryOverpass, fetchWithFallback, the rate limiter, the response cache *)
(* and the in-flight map).                                                 *)
(*                                                                         *)
(* Scheduling follows the JavaScript event loop: one action is one         *)
(* macrotask (a call from the UI, a timer callback, the arrival of a       *)
(* network response).  The continuations a task queues as microtasks (the  *)
(* start of the next waitForRateLimit body of the chain) are actions that  *)
(* take priority over every macrotask.  Time is in milliseconds.           *)
(*                                                                         *)
(* The second part models the Heading Estimator of                         *)
(* src/src/hooks/useDeviceOrientation.ts: the hook's state and refs, the   *)
(* runs of its effect and the events of the three sensor providers.        *)
(***************************************************************************)
EXTENDS Integers, Sequences, FiniteSets, TLC

\* ------------------------------------------------------------------ bounds
\* Spec: concurrent queries.
MaxCalls == 2          \* queryOverpass calls per behaviour
MaxFailures == 2       \* failed responses the network may produce
MaxJitter == 1         \* Math.random draws that are not 0
NumKeys == 2           \* distinct cache keys the callers use
\* SpecCfg: the limiter under every configuration of EnvChoices.
MaxCallsCfg == 2
MaxFailuresCfg == 1
MaxJitterCfg == 1
\* SpecOne: one key, a run that may exhaust its attempts.
MaxCallsOne == 2
MaxFailuresOne == 6
\* SpecRetry: one query, every jitter draw of its backoffs.
MaxCallsRetry == 1
MaxJitterRetry == 2

\* SpecCall: one call of queryOverpass with its arguments.
MaxFailuresCall == 3
\* SpecSearch: the city search.
MaxSearches == 3       \* searchCities calls per behaviour
MaxSearchFailures == 1 \* answers of the geocoding service that fail
SearchGap == 200       \* an instant between a request and the end of its interval
\* SpecWatch: the geolocation hook.
MaxStarts == 2         \* start() calls per behaviour
MaxStops == 1          \* stop() calls per behaviour
MaxWatchErrors == 4    \* errors the watches report
MaxFixes == 1          \* positions the watches report
\* SpecHeading: the heading estimator on every platform.
MaxActivations == 2    \* requestPermission calls per behaviour
MaxSamples == 3        \* sensor samples delivered per behaviour
MaxSensorErrors == 2   \* runtime errors the sensors may raise
\* SpecSmooth: one platform that has every provider, headings all around
\* the circle.
MaxActivationsSmooth == 1
MaxSamplesSmooth == 3
MaxSensorErrorsSmooth == 2
\* SpecPure: the pure functions of the query engine on bounded inputs.
MaxElements == 2       \* elements of a response
MaxTypes == 2          \* categories of a request, besides the default list
\* SpecApp: the venue loading of the application.
MaxChanges == 3        \* changes of the user location or of the filters
MaxCallsApp == 1       \* queryOverpass calls of the loads
MaxFailuresApp == 6
MaxVariedAttempts == 2 \* last attempts of a run whose failure is of any kind

\* --------------------------------------------------------------- constants
CACHE_DURATION == 5 * 60 * 1000
NumInstances == 3                      \* OVERPASS_INSTANCES.length
OVERPASS_INSTANCES == [i \in 0..(NumInstances - 1) |-> i]
Epoch == 1000000                       \* Date.now() when the module is loaded
None == <<>>

VARIABLES
  now,                 \* Date.now()
  env,                 \* import.meta.env: the four VITE_OVERPASS_* settings
  bound,               \* what the environment may still do in this behaviour
  cache,               \* Map key -> [data, timestamp]
  inFlightRequests,    \* Map key -> id of the pending operation
  currentInstanceIndex,
  lastRequestTs,
  recentRequests,
  rateLimiterChain,    \* ticket the chain promise follows (0: resolved)
  tickets,             \* one per enqueueRateLimitedSlot call, in call order
  runs,                \* operation id -> state of its fetchWithFallback run
  calls,               \* the queryOverpass calls made so far, in order
  requests,            \* log of the physical requests issued and their answers
  \* ---- useDeviceOrientation
  platform,            \* what window offers: the sensors and the screen angle
  hbound,              \* what the user and the sensors may still do
  orientation,         \* useState: DeviceOrientationState
  isActive,            \* useState
  effectPending,       \* isActive changed and the effect has not run yet
  pendingPermission,   \* requestPermission calls awaiting the platform
  providerRef,
  absSensorRef,        \* the effect whose sensor the ref holds (0: null)
  accelRef,
  magRef,
  latestAccel,         \* <<>> or <<effect during which it was delivered>>
  latestMag,
  lastHeadingRef,      \* <<>> or <<number>>
  effects,             \* one per run of the effect body: its closure
  emits,               \* log of the updateHeading calls
  permissionLog,       \* one entry per requestPermission call: its prompts
                       \* of the platform and what it returned
  \* ---- pure functions
  probe,               \* a function, its input and, once applied, its output
  \* ---- App
  params,              \* useState: userLocation and filters
  appEffectPending,    \* they changed and the effect has not run yet
  lastChange,          \* when they last changed
  timeouts,            \* the pending timers of setTimeout
  effectTimeout,       \* timeoutId of the last run of the effect (0: none)
  timeoutCount,        \* timers set so far
  loads,               \* the calls of loadEstablishments, in order
  establishments,      \* useState
  isLoading,           \* useState
  toasts,              \* log of the messages shown
  counted,             \* result -> number of venues in it, once seen
  abound,              \* what the user may still do
  \* ---- searchCities
  searchCache,         \* Map cacheKey -> City[]
  lastRequestTime,
  searches,            \* the searchCities calls made so far, in order
  cityRequests,        \* log of the requests sent to the geocoding service
  searchTimers,        \* the pending timers of line 147
  sbound,              \* what the callers and the service may still do
  \* ---- useGeolocation
  geoLocation,         \* useState location: "null", "coarse" or "fine"
  geoError,            \* useState error
  isWatching,          \* useState
  profile,             \* useState
  lastFixAtRef,
  watchIdRef,          \* 0: null
  backoffRef,
  backoffTimerRef,     \* 0: null
  watching,            \* the watches the platform runs
  watchCount,          \* watches started so far
  restartTimers,       \* the pending timers of line 218
  restartCount,        \* timers set so far
  starting,            \* start() calls awaiting their first fix (line 240)
  oneShots,            \* getCurrentPosition requests of line 226 pending
  stopped,             \* stop() has run and start() was not called since
  lbound               \* what the user and the platform may still do

vars == <<now, env, bound, cache, inFlightRequests, currentInstanceIndex,
          lastRequestTs, recentRequests, rateLimiterChain, tickets, runs,
          calls, requests>>

hvars == <<platform, hbound, orientation, isActive, effectPending,
           pendingPermission, providerRef, absSensorRef, accelRef, magRef,
           latestAccel, latestMag, lastHeadingRef, effects, emits,
           permissionLog>>

pvars == <<probe>>

avars == <<params, appEffectPending, lastChange, timeouts, effectTimeout,
           timeoutCount, loads, establishments, isLoading, toasts, counted,
           abound>>

svars == <<searchCache, lastRequestTime, searches, cityRequests,
           searchTimers, sbound>>

lvars == <<geoLocation, geoError, isWatching, profile, lastFixAtRef,
           watchIdRef, backoffRef, backoffTimerRef, watching, watchCount,
           restartTimers, restartCount, starting, oneShots, stopped, lbound>>

\* ----------------------------------------------------------- configuration
\* A setting is <<>> when the variable is not set, <<n>> when Number(val) = n.
__toInt(val, def) == IF Len(val) = 1 /\ val[1] >= 0 THEN val[1] ELSE def

MIN_INTERVAL_MS == __toInt(env.MIN_INTERVAL_MS, 2000)
WINDOW_MS == __toInt(env.WINDOW_MS, 10000)
MAX_REQS_PER_WINDOW == __toInt(env.MAX_REQUESTS_PER_WINDOW, 3)
BACKOFF_BASE_MS == __toInt(env.BACKOFF_BASE_MS, 800)

DefaultEnv == [MIN_INTERVAL_MS |-> <<>>, WINDOW_MS |-> <<>>,
               MAX_REQUESTS_PER_WINDOW |-> <<>>, BACKOFF_BASE_MS |-> <<>>]

\* Math.floor(Math.random() * n): the two extreme outcomes, the upper one
\* while the behaviour may still draw a value other than 0.
RandomBelow(n) == IF bound.jitter > 0 THEN {0, n - 1} ELSE {0}
Drawn(b, j) == IF j = 0 THEN b ELSE [b EXCEPT !.jitter = @ - 1]

\* ------------------------------------------------------------------- maps
MapSet(m, k, v) == [x \in (DOMAIN m) \cup {k} |-> IF x = k THEN v ELSE m[x]]
MapDelete(m, S) == [x \in (DOMAIN m) \ S |-> m[x]]
EmptyMap == [x \in {} |-> 0]

Pow2(n) == IF n = 0 THEN 1 ELSE IF n = 1 THEN 2 ELSE IF n = 2 THEN 4
           ELSE IF n = 3 THEN 8 ELSE 16
Min(a, b) == IF a < b THEN a ELSE b

\* ------------------------------------------------------------ rate limiter
\* tickets[t] = [run, attempt, pred, state, wake, ts]: the promise p that the
\* t-th call of enqueueRateLimitedSlot returned.  pred is the value of
\* rateLimiterChain when it was called; state is "queued" until run() starts,
\* "sleepInterval" / "sleepWindow" while waitForRateLimit sleeps, "granted"
\* once it has returned (ts is the timestamp it pushed).
PredDone(t) == IF tickets[t].pred = 0 THEN TRUE
               ELSE tickets[tickets[t].pred].state = "granted"
Startable(t) == tickets[t].state = "queued" /\ PredDone(t)
\* A microtask is pending: a limiter run that can start, or a load of the
\* application whose await of queryOverpass (App.tsx line 147) has its value.
MicrotaskPending ==
  \/ \E t \in 1..Len(tickets) : Startable(t)
  \/ \E l \in 1..Len(loads) :
       loads[l].pc = "query" /\ calls[loads[l].call].outcome # None

RECURSIVE ShiftOld(_, _)
ShiftOld(rr, cutoff) ==
  IF Len(rr) > 0 /\ rr[1] < cutoff THEN ShiftOld(Tail(rr), cutoff) ELSE rr

ChainNotAdvanced(t) == 0

\* The value rateLimiterChain takes when ticket t is enqueued (line 247).
ChainAfterEnqueue(t) == t

IntervalWaitJitterOnly(since, j) == j

\* The sleep of line 226.
IntervalWait(since, j) == MIN_INTERVAL_MS - since + j

NewTicket(r, a) == [run |-> r, attempt |-> a, pred |-> rateLimiterChain,
                    state |-> "queued", wake |-> 0, ts |-> 0]

\* Lines 238-240, then the continuation of fetchWithFallback after
\* `await enqueueRateLimitedSlot()`: the fetch to the endpoint read at the
\* top of the loop (lines 504, 510).
Grant(t, rr) ==
  LET r == tickets[t].run IN
  /\ lastRequestTs' = now
  /\ recentRequests' = Append(rr, now)
  /\ tickets' = [tickets EXCEPT ![t].state = "granted", ![t].ts = now]
  /\ runs' = [runs EXCEPT ![r].pc = "fetching", ![r].req = Len(requests) + 1]
  /\ requests' = Append(requests,
        [run |-> r, attempt |-> tickets[t].attempt, ticket |-> t,
         endpoint |-> runs[r].endpoint, cursor |-> currentInstanceIndex,
         time |-> now, status |-> "pending", answered |-> 0])

\* Lines 229-240 of waitForRateLimit, run by ticket t; b is the budget left.
WindowPhase(t, b) ==
  LET rr == ShiftOld(recentRequests, now - WINDOW_MS) IN
  IF Len(rr) >= MAX_REQS_PER_WINDOW /\ Len(rr) > 0
  THEN \E j \in RandomBelow(150) :
         LET waitMs == WINDOW_MS - (now - rr[1]) + j IN
         /\ bound' = Drawn(b, j)
         /\ IF waitMs > 0
            THEN /\ tickets' = [tickets EXCEPT ![t].state = "sleepWindow",
                                               ![t].wake = now + waitMs]
                 /\ recentRequests' = rr
                 /\ UNCHANGED <<lastRequestTs, runs, requests>>
            ELSE Grant(t, rr)
  ELSE /\ bound' = b
       /\ Grant(t, rr)

\* Lines 222-227: run() starts once the chain promise has resolved.
LimiterStart(t) ==
  /\ Startable(t)
  /\ LET since == now - lastRequestTs IN
     IF since < MIN_INTERVAL_MS
     THEN /\ \E j \in RandomBelow(150) :
               /\ tickets' = [tickets EXCEPT ![t].state = "sleepInterval",
                             ![t].wake = now + IntervalWait(since, j)]
               /\ bound' = Drawn(bound, j)
          /\ UNCHANGED <<lastRequestTs, recentRequests, runs, requests>>
     ELSE WindowPhase(t, bound)
  /\ UNCHANGED <<now, env, cache, inFlightRequests,
                 currentInstanceIndex, rateLimiterChain, calls>>

\* The timer of line 226 fires.
LimiterWakeInterval(t) ==
  /\ ~MicrotaskPending
  /\ tickets[t].state = "sleepInterval"
  /\ now >= tickets[t].wake
  /\ WindowPhase(t, bound)
  /\ UNCHANGED <<now, env, cache, inFlightRequests,
                 currentInstanceIndex, rateLimiterChain, calls>>

\* The window is examined again after the sleep.
LimiterWakeWindowAgain(t) ==
  /\ ~MicrotaskPending
  /\ tickets[t].state = "sleepWindow"
  /\ now >= tickets[t].wake
  /\ WindowPhase(t, bound)
  /\ UNCHANGED <<now, env, cache, inFlightRequests,
                 currentInstanceIndex, rateLimiterChain, calls>>

\* The timer of line 236 fires.
LimiterWakeWindow(t) ==
  /\ ~MicrotaskPending
  /\ tickets[t].state = "sleepWindow"
  /\ now >= tickets[t].wake
  /\ Grant(t, recentRequests)
  /\ UNCHANGED <<now, env, bound, cache, inFlightRequests,
                 currentInstanceIndex, rateLimiterChain, calls>>

\* -------------------------------------------------------- fetchWithFallback
\* runs[r] = [key, pc, attempt, endpoint, lastError, wake, req, result, ...], r
\* being the id of the queryOverpass call that started the operation.  pc is
\* "waitSlot" (line 508), "fetching" (510-519), "backoff429" (526),
\* "backoffNet" (540) or "settled".  req is the index of its last request in
\* the log; settledTime and settledCalls record when it settled and how many
\* calls had been made by then.
maxTriesOnePass == NumInstances

\* Line 500.
maxTries == NumInstances * 2
NextInstance(i) == (i + 1) % NumInstances

Statuses == {"ok", "429", "http", "exception"}
MkError(kind, a) == [kind |-> kind, attempt |-> a]
ExhaustedError == MkError("exhausted", maxTries)

\* The exponent is not capped.
Backoff429Uncapped(attempt, j) == BACKOFF_BASE_MS * (2 ^ attempt) + j

\* Line 524.
Backoff429(attempt, j) == BACKOFF_BASE_MS * Pow2(Min(4, attempt)) + j
\* Line 540.
BackoffNet(j) == BACKOFF_BASE_MS + j

InFlightAfterSettleOnlyOk(m, k, outcome) ==
  IF outcome[1] = "ok" THEN MapDelete(m, {k}) ELSE m

\* The whole map is cleared.
InFlightAfterSettleAll(m, k, outcome) == EmptyMap

\* The finally of queryOverpass (lines 634-636) on the in-flight map, for an
\* operation of key k that settled with the given outcome.
InFlightAfterSettle(m, k, outcome) == MapDelete(m, {k})

\* Only the call that created the operation is told its outcome.
AwaitingOriginatorOnly(c, r) ==
  calls[c].op = r /\ calls[c].outcome = None /\ calls[c].how = "originator"

\* The call c awaits the promise of operation r: the originator at line 632
\* (return await promise), a subscriber through the promise that line 569
\* returned to it (return existing).
Awaiting(c, r) == calls[c].op = r /\ calls[c].outcome = None

\* The operation r settles: the promise of lines 579-629 resolves or rejects,
\* every caller awaiting it gets the outcome, the originator runs its finally.
Settle(r, run1, outcome) ==
  /\ runs' = [runs EXCEPT ![r] = [run1 EXCEPT !.pc = "settled",
                                              !.result = outcome,
                                              !.settledTime = now,
                                              !.settledCalls = Len(calls)]]
  /\ inFlightRequests' = InFlightAfterSettle(inFlightRequests, run1.key, outcome)
  /\ calls' = [c \in DOMAIN calls |->
                 IF Awaiting(c, r)
                 THEN [calls[c] EXCEPT !.outcome = outcome] ELSE calls[c]]
  /\ UNCHANGED <<tickets, rateLimiterChain>>

\* Lines 244-249, called by run r for its attempt a.
enqueueRateLimitedSlot(r, a) ==
  /\ tickets' = Append(tickets, NewTicket(r, a))
  /\ rateLimiterChain' = ChainAfterEnqueue(Len(tickets) + 1)

\* The endpoint an attempt uses (line 504), read when the loop body starts.
EndpointAtLoopTop(cursor) == OVERPASS_INSTANCES[cursor]

\* Back to the top of the loop (line 503) with run1.attempt already
\* incremented and the cursor at cursor1: a new attempt or line 544.
LoopTop(r, run1, cursor1) ==
  IF run1.attempt < maxTries
  THEN /\ enqueueRateLimitedSlot(r, run1.attempt)
       /\ runs' = [runs EXCEPT ![r] = [run1 EXCEPT !.pc = "waitSlot",
                          !.endpoint = EndpointAtLoopTop(cursor1)]]
       /\ UNCHANGED <<inFlightRequests, calls>>
  ELSE Settle(r, run1, <<"error", IF run1.lastError = None
                                   THEN ExhaustedError ELSE run1.lastError>>)

\* The answer to the request of run r arrives (lines 510-541).  "exception"
\* is whatever the catch of line 535 catches: fetch rejects, or the status is
\* ok and response.json() rejects.
\* The list is returned and not kept.
CacheWriteSkipped(c, k, entry) == c

\* Lines 619-622: cache.set(cacheKey, ...).
CacheWrite(c, k, entry) == MapSet(c, k, entry)

FetchResponse(r, status) ==
  /\ ~MicrotaskPending
  /\ r \in DOMAIN runs
  /\ runs[r].pc = "fetching"
  /\ status # "ok" => bound.failures > 0
  /\ requests' = [requests EXCEPT ![runs[r].req].status = status,
                                  ![runs[r].req].answered = now]
  /\ LET run == runs[r]
         a == run.attempt
         b == IF status = "ok" THEN bound
              ELSE [bound EXCEPT !.failures = @ - 1]
     IN CASE status = "ok" ->
               \* lines 519, 584-624
               /\ cache' = CacheWrite(cache, run.key,
                                      [data |-> <<r, a>>, timestamp |-> now])
               /\ Settle(r, run, <<"ok", <<r, a>>>>)
               /\ UNCHANGED <<bound, currentInstanceIndex>>
          [] status = "429" ->
               \* lines 522-526
               /\ \E j \in RandomBelow(250) :
                    /\ runs' = [runs EXCEPT ![r].pc = "backoff429",
                                         ![r].wake = now + Backoff429(a, j)]
                    /\ bound' = Drawn(b, j)
               /\ UNCHANGED <<cache, currentInstanceIndex, inFlightRequests,
                              calls, tickets, rateLimiterChain>>
          [] status = "http" ->
               \* lines 533-534, then the next iteration
               /\ currentInstanceIndex' = NextInstance(currentInstanceIndex)
               /\ LoopTop(r, [run EXCEPT !.lastError = MkError("http", a),
                                         !.attempt = a + 1],
                          NextInstance(currentInstanceIndex))
               /\ bound' = b
               /\ UNCHANGED cache
          [] OTHER ->
               \* lines 535-540
               /\ currentInstanceIndex' = NextInstance(currentInstanceIndex)
               /\ \E j \in RandomBelow(200) :
                    /\ runs' = [runs EXCEPT ![r].pc = "backoffNet",
                                         ![r].lastError = MkError(status, a),
                                         ![r].wake = now + BackoffNet(j)]
                    /\ bound' = Drawn(b, j)
               /\ UNCHANGED <<cache, inFlightRequests, calls, tickets,
                              rateLimiterChain>>
  /\ UNCHANGED <<now, env, lastRequestTs, recentRequests>>

\* The timer of line 526 fires: lines 527-529, then the next iteration.
BackoffWake429(r) ==
  /\ ~MicrotaskPending
  /\ r \in DOMAIN runs
  /\ runs[r].pc = "backoff429"
  /\ now >= runs[r].wake
  /\ LET run == runs[r]
         c1 == NextInstance(currentInstanceIndex)
     IN /\ currentInstanceIndex' = c1
        /\ LoopTop(r, [run EXCEPT !.lastError = MkError("429", run.attempt),
                                  !.attempt = run.attempt + 1], c1)
  /\ UNCHANGED <<now, env, bound, cache, lastRequestTs, recentRequests,
                 requests>>

\* The timer of line 540 fires: the next iteration.
BackoffWakeNet(r) ==
  /\ ~MicrotaskPending
  /\ r \in DOMAIN runs
  /\ runs[r].pc = "backoffNet"
  /\ now >= runs[r].wake
  /\ LoopTop(r, [runs[r] EXCEPT !.attempt = runs[r].attempt + 1],
             currentInstanceIndex)
  /\ UNCHANGED <<now, env, bound, cache, currentInstanceIndex, lastRequestTs,
                 recentRequests, requests>>

\* ------------------------------------------------------------ queryOverpass
CacheFreshNever(entry) == now - entry.timestamp < 0

\* An entry is served whatever its age.
CacheFreshAlways(entry) == TRUE

\* Line 560: the entry may be served.
CacheFresh(entry) == now - entry.timestamp < CACHE_DURATION

\* Lines 489-496.
cleanExpiredCache(c) ==
  MapDelete(c, {k \in DOMAIN c : now - c[k].timestamp > CACHE_DURATION})

InFlightLookupNever(k) == 0

\* Lines 566-570: the pending operation a call with key k subscribes to, 0
\* when there is none.
InFlightLookup(k) ==
  IF k \in DOMAIN inFlightRequests THEN inFlightRequests[k] ELSE 0

\* A caller calls queryOverpass with arguments whose cache key is k.  The
\* code runs without suspension from line 557 to the first await of
\* fetchWithFallback (line 508) and then to lines 631-633.
queryOverpass(k) ==
  /\ ~MicrotaskPending
  /\ Len(calls) < bound.calls
  /\ LET id == Len(calls) + 1 IN
     IF k \in DOMAIN cache /\ CacheFresh(cache[k])
     THEN /\ calls' = Append(calls, [key |-> k, op |-> 0, how |-> "hit",
                              time |-> now,
                              outcome |-> <<"ok", cache[k].data>>])
          /\ UNCHANGED <<cache, inFlightRequests, tickets, rateLimiterChain,
                         runs>>
     ELSE IF InFlightLookup(k) # 0
     THEN /\ calls' = Append(calls, [key |-> k, op |-> InFlightLookup(k),
                              how |-> "subscribed", time |-> now,
                              outcome |-> None])
          /\ UNCHANGED <<cache, inFlightRequests, tickets, rateLimiterChain,
                         runs>>
     ELSE /\ cache' = cleanExpiredCache(cache)
          /\ enqueueRateLimitedSlot(id, 0)
          /\ runs' = MapSet(runs, id,
                 [key |-> k, pc |-> "waitSlot", attempt |-> 0,
                  endpoint |-> EndpointAtLoopTop(currentInstanceIndex),
                  lastError |-> None, wake |-> 0, req |-> 0,
                  result |-> None, settledTime |-> 0, settledCalls |-> 0])
          /\ inFlightRequests' = MapSet(inFlightRequests, k, id)
          /\ calls' = Append(calls, [key |-> k, op |-> id,
                              how |-> "originator", time |-> now,
                              outcome |-> None])
  /\ UNCHANGED <<now, env, bound, currentInstanceIndex, lastRequestTs,
                 recentRequests, requests>>

\* ---------------------------------------------------------------- the clock
\* Time passes up to the next instant at which something can change: a timer
\* is due, or a cache entry is about to reach, reaches or passes its expiry.  A timer callback
\* runs at the instant it is due (the random jitter of each sleep stands for
\* the lateness of its timer); calls and responses come at any instant.
\* PROFILES[p].timeout of useGeolocation (src/unnamed/part_002 lines
\* 154-158).
ProfileTimeout(p) == IF p = "balanced" THEN 20000 ELSE 30000

Timers ==
     {tickets[t].wake : t \in {u \in 1..Len(tickets) :
                          tickets[u].state \in {"sleepInterval", "sleepWindow"}}}
  \cup {runs[r].wake : r \in {u \in DOMAIN runs :
                          runs[u].pc \in {"backoff429", "backoffNet"}}}
  \cup {t.due : t \in timeouts}
  \cup {searches[i].wake : i \in {u \in 1..Len(searches) :
                              searches[u].pc = "throttle"}}
  \cup {t.due : t \in searchTimers}
  \cup {t.due : t \in restartTimers}
Instants ==
  Timers
  \cup {cache[k].timestamp + CACHE_DURATION - 1 : k \in DOMAIN cache}
  \cup {cache[k].timestamp + CACHE_DURATION : k \in DOMAIN cache}
  \cup {cache[k].timestamp + CACHE_DURATION + 1 : k \in DOMAIN cache}
  \cup {lastRequestTime + SearchGap}
  \cup {w.since + ProfileTimeout(w.closure) : w \in watching}

Advance ==
  /\ ~MicrotaskPending
  /\ \A t \in Timers : t > now
  /\ \E t \in Instants :
       /\ t > now
       /\ \A u \in Instants : u > now => t <= u
       /\ now' = t
  /\ UNCHANGED <<env, bound, cache, inFlightRequests, currentInstanceIndex,
                 lastRequestTs, recentRequests, rateLimiterChain, tickets,
                 runs, calls, requests>>

\* ====================================================== heading estimator
\* Model of src/src/hooks/useDeviceOrientation.ts.  One action is one task of
\* the event loop: a call of requestPermission or stopTracking together with
\* the render it causes, the run of the effect (cleanup of the previous
\* effect, then the body), the answer to a permission prompt, one sensor
\* event.  Angles are exact multiples of 1 / Scale degree: a smoothing step
\* divides by 5, and a behaviour emits at most MaxSamples headings.
RECURSIVE Pow5(_)
Pow5(n) == IF n = 0 THEN 1 ELSE 5 * Pow5(n - 1)
Scale == Pow5(MaxSamples)
Turn == 360 * Scale

\* A JavaScript number: NaN, or v / Scale degrees.
NaN == [nan |-> TRUE, v |-> 0]
Num(v) == [nan |-> FALSE, v |-> v]
Deg(d) == Num(d * Scale)
Plus(a, b) == IF a.nan \/ b.nan THEN NaN ELSE Num(a.v + b.v)
\* a % n of JavaScript: the remainder has the sign of the dividend.
Rem(a, n) == IF a >= 0 THEN a % n ELSE 0 - ((0 - a) % n)

\* Lines 18-22.  NaN % 360 is NaN and NaN < 0 is false.
normalizeAngle(deg) ==
  IF deg.nan THEN NaN
  ELSE LET a == Rem(deg.v, Turn) IN Num(IF a < 0 THEN a + Turn ELSE a)

\* The difference taken without wrapping.
shortestDeltaNoWrap(a, b) == Plus(b, Num(0 - a.v))

\* Lines 24-28.
shortestDelta(a, b) ==
  IF a.nan \/ b.nan THEN NaN
  ELSE Num(Rem(b.v - a.v + 540 * Scale, Turn) - 180 * Scale)

\* Lines 31-62, for gamma = 0 and 0 <= beta < 180.  Then sG = 0 and cG = 1,
\* so rA = -sA * sB and rB = cA * sB.  With beta = 0 both are 0 and rA / rB
\* is NaN, which atan and the conversion to degrees keep.  With sB > 0 the
\* result is the angle of (rB, rA) = (cA, -sA) in [0, 360), that is 360 -
\* alpha for 0 < alpha < 360 and 0 for alpha = 0.
computeCompassHeadingFromEuler(alpha, beta, gamma) ==
  IF beta = 0 /\ gamma = 0 THEN NaN ELSE Deg((360 - alpha) % 360)

\* Lines 94-103.
getScreenAngle == Deg(platform.angle)

\* Lines 107-113: alpha * delta with alpha = 0.2 is delta / 5.
Smoothed(prev, newHeading) ==
  IF prev = <<>> THEN newHeading
  ELSE LET delta == shortestDelta(prev[1], newHeading)
           step == IF delta.nan THEN NaN ELSE Num(delta.v \div 5)
       IN normalizeAngle(Plus(prev[1], step))

\* Lines 116-123: the fields updateHeading sets before ...extra.
WithHeading(o, smoothed) ==
  [o EXCEPT !.heading = <<smoothed>>, !.absolute = TRUE,
            !.hasPermission = <<TRUE>>, !.error = "null"]

\* The object spread of lines 117-122: the fields of extra replace those of o.
Spread(o, extra) ==
  [f \in DOMAIN o |-> IF f \in DOMAIN extra THEN extra[f] ELSE o[f]]

\* Lines 105-124, called by a callback of effect e; extra is the second
\* argument, info is what the callback computed.
updateHeading(e, newHeading, extra, info) ==
  LET smoothed == Smoothed(lastHeadingRef, newHeading) IN
  /\ lastHeadingRef' = <<smoothed>>
  /\ orientation' = Spread(WithHeading(orientation, smoothed), extra)
  /\ emits' = Append(emits, [effect |-> e, raw |-> newHeading,
                             prev |-> lastHeadingRef, out |-> smoothed,
                             active |-> isActive, info |-> info])

\* ---- the closure of one run of the effect (lines 127-329)
\* A sensor object is "none" (not constructed), "on" (activated) or "off"
\* (stopped, or deactivated by the platform when it raised an error).
NewEffect == [mounted |-> TRUE, cleanup |-> "null", abs |-> "none",
              accel |-> "none", mag |-> "none", listeners |-> 0]

\* What the provider functions of effect e read and write.
Heap == [eff |-> NewEffect, providerRef |-> providerRef,
         absSensorRef |-> absSensorRef, accelRef |-> accelRef,
         magRef |-> magRef, error |-> FALSE]
HeapOf(e) == [Heap EXCEPT !.eff = effects[e]]

\* Lines 259-303.
startDeviceOrientation(h) ==
  [h EXCEPT !.providerRef = "deviceorientation",
            !.eff.listeners = @ + 1,
            !.eff.cleanup = "devori"]

\* Lines 210-215.
stopMagnetometer(h) ==
  [h EXCEPT !.eff.mag = IF @ = "none" THEN @ ELSE "off",
            !.eff.accel = IF @ = "none" THEN @ ELSE "off",
            !.magRef = 0, !.accelRef = 0]

\* Lines 178-257.  On a platform that blocks the sensors a constructor
\* throws before the refs are assigned.
startMagnetometer(h, e) ==
  IF platform.mag \in {"absent", "noAccel"} THEN startDeviceOrientation(h)
  ELSE IF platform.mag = "blocked" THEN startDeviceOrientation(h)
  ELSE [h EXCEPT !.accelRef = e, !.magRef = e,
                 !.providerRef = "magnetometer",
                 !.eff.accel = "on", !.eff.mag = "on",
                 !.eff.cleanup = "mag"]

\* Lines 133-176.
startAbsoluteOrientation(h, e) ==
  IF platform.abs = "blocked" THEN startMagnetometer(h, e)
  ELSE [h EXCEPT !.absSensorRef = e,
                 !.providerRef = "absolute-orientation",
                 !.eff.abs = "on", !.eff.cleanup = "abs"]

\* Every provider the platform has is started.
ChooseAllProviders(h, e) ==
  LET h1 == IF platform.abs # "absent"
            THEN startAbsoluteOrientation(h, e) ELSE h
  IN IF platform.devori THEN startDeviceOrientation(h1) ELSE h1

\* Lines 305-314: choose best provider.
ChooseProvider(h, e) ==
  IF platform.abs # "absent" THEN startAbsoluteOrientation(h, e)
  ELSE IF platform.mag \notin {"absent", "noAccel"} THEN startMagnetometer(h, e)
  ELSE IF platform.devori THEN startDeviceOrientation(h)
  ELSE [h EXCEPT !.error = TRUE]

\* Lines 321-323: the sensors the refs still hold are stopped.  A ref holds
\* null or a sensor of the effect that is mounted (RefsAreOwn).
StopLingering(h) ==
  [h EXCEPT !.eff.abs = IF h.absSensorRef # 0 /\ @ = "on" THEN "off" ELSE @,
            !.eff.mag = IF h.magRef # 0 /\ @ = "on" THEN "off" ELSE @,
            !.eff.accel = IF h.accelRef # 0 /\ @ = "on" THEN "off" ELSE @]

\* Lines 316-328, the function the effect returns, on the closure h.
EffectCleanup(h) ==
  LET h1 == IF h.eff.cleanup = "abs"
            THEN [h EXCEPT !.eff.abs = "off", !.absSensorRef = 0]
            ELSE IF h.eff.cleanup = "mag" THEN stopMagnetometer(h)
            ELSE IF h.eff.cleanup = "devori"
            THEN [h EXCEPT !.eff.listeners = @ - 1]
            ELSE h
  IN [StopLingering(h1) EXCEPT !.eff.mounted = FALSE, !.absSensorRef = 0,
                               !.magRef = 0, !.accelRef = 0]

ApplyHeap(e, h) ==
  /\ effects' = [effects EXCEPT ![e] = h.eff]
  /\ providerRef' = h.providerRef
  /\ absSensorRef' = h.absSensorRef
  /\ accelRef' = h.accelRef
  /\ magRef' = h.magRef

\* ---- the hook's functions
\* Lines 338-339 and 353-354, with the render that follows.
Activate ==
  /\ isActive' = TRUE
  /\ effectPending' = ~isActive
  /\ orientation' = [orientation EXCEPT !.hasPermission = <<TRUE>>,
                                        !.error = "null"]

\* Lines 331-356, up to the await of line 336 on a platform that has
\* DeviceOrientationEvent.requestPermission.
requestPermission ==
  /\ hbound.activations > 0
  /\ ~effectPending
  /\ hbound' = [hbound EXCEPT !.activations = @ - 1]
  /\ IF platform.gated
     THEN /\ pendingPermission' = pendingPermission + 1
          /\ permissionLog' = Append(permissionLog,
                                     [asked |-> 1, result |-> <<>>])
          /\ UNCHANGED <<isActive, effectPending, orientation>>
     ELSE /\ Activate
          /\ permissionLog' = Append(permissionLog,
                                     [asked |-> 0, result |-> <<TRUE>>])
          /\ UNCHANGED pendingPermission
  /\ UNCHANGED <<platform, providerRef, absSensorRef, accelRef, magRef,
                 latestAccel, latestMag, lastHeadingRef, effects, emits>>

PermissionAnswers == {"granted", "denied", "throws"}

\* The call whose prompt is answered: the oldest one that still awaits.
Awaited == CHOOSE i \in 1..Len(permissionLog) :
             /\ permissionLog[i].result = <<>>
             /\ \A j \in 1..(i - 1) : permissionLog[j].result # <<>>

\* The refusal is not reported in the state.
RefusedSilently(o, answer) == o

\* Lines 342 and 346.
Refused(o, answer) ==
  [o EXCEPT !.hasPermission = <<FALSE>>,
            !.error = IF answer = "denied" THEN "denied" ELSE "requestError"]

\* Lines 336-348: the platform answers the prompt and the call returns.
PermissionAnswer(answer) ==
  /\ pendingPermission > 0
  /\ ~effectPending
  /\ pendingPermission' = pendingPermission - 1
  /\ permissionLog' = [permissionLog EXCEPT
                         ![Awaited].result = <<answer = "granted">>]
  /\ IF answer = "granted" THEN Activate
     ELSE /\ orientation' = Refused(orientation, answer)
          /\ UNCHANGED <<isActive, effectPending>>
  /\ UNCHANGED <<platform, hbound, providerRef, absSensorRef, accelRef, magRef,
                 latestAccel, latestMag, lastHeadingRef, effects, emits>>

\* The error is cleared with the angles.
ClearedWithError(o) ==
  [o EXCEPT !.alpha = <<>>, !.beta = <<>>, !.gamma = <<>>,
            !.heading = <<>>, !.error = "null"]

\* Lines 362-368.
Cleared(o) == [o EXCEPT !.alpha = <<>>, !.beta = <<>>, !.gamma = <<>>,
                        !.heading = <<>>]

\* Lines 358-369, with the render that follows.
stopTracking ==
  /\ ~effectPending
  /\ isActive' = FALSE
  /\ effectPending' = isActive
  /\ lastHeadingRef' = <<>>
  /\ orientation' = Cleared(orientation)
  /\ UNCHANGED <<platform, hbound, pendingPermission, providerRef,
                 absSensorRef, accelRef, magRef, latestAccel, latestMag,
                 effects, emits, permissionLog>>

\* The error is set and the platform still counts as supported.
UnsupportedKeepsFlag(o) == [o EXCEPT !.error = "noSensor"]

\* Line 313.
Unsupported(o) == [o EXCEPT !.error = "noSensor", !.isSupported = FALSE]

\* React runs the effect of lines 127-329 after the render in which isActive
\* changed: the cleanup the previous run returned, then the body.
FlushEffects ==
  /\ effectPending
  /\ effectPending' = FALSE
  /\ LET n == Len(effects)
         old == IF n = 0 THEN FALSE ELSE effects[n].mounted
         h0 == IF old THEN EffectCleanup(HeapOf(n)) ELSE Heap
         effs == IF old THEN [effects EXCEPT ![n] = h0.eff] ELSE effects
         h1 == IF isActive
               THEN ChooseProvider([h0 EXCEPT !.eff = NewEffect], n + 1)
               ELSE h0
     IN /\ effects' = IF isActive THEN Append(effs, h1.eff) ELSE effs
        /\ providerRef' = h1.providerRef
        /\ absSensorRef' = h1.absSensorRef
        /\ accelRef' = h1.accelRef
        /\ magRef' = h1.magRef
        /\ orientation' = IF h1.error THEN Unsupported(orientation)
                          ELSE orientation
  /\ UNCHANGED <<platform, hbound, isActive, pendingPermission, latestAccel,
                 latestMag, lastHeadingRef, emits, permissionLog>>

\* ---- sensor events
\* The angles, in degrees, that atan2 yields in a reading: the yaw of the
\* quaternion (line 155) and the tilt-compensated angle (line 238).
Atan2Degrees == IF hbound.wide
                THEN {-180, -170, -90, -10, 0, 10, 90, 170, 180}
                ELSE {-10, 10}

Sampled == hbound' = [hbound EXCEPT !.samples = @ - 1]
Info(provider, path, base, a, m) ==
  [provider |-> provider, path |-> path, base |-> base,
   accelFrom |-> a, magFrom |-> m]

\* Lines 138-159: a reading of the AbsoluteOrientationSensor of effect e
\* whose quaternion has the given yaw.
AbsReading(e, yaw) ==
  /\ effects[e].abs = "on"
  /\ hbound.samples > 0
  /\ Sampled
  /\ LET heading == normalizeAngle(Deg(360 - yaw)) IN
     updateHeading(e, normalizeAngle(Plus(heading, getScreenAngle)),
                   [absolute |-> TRUE],
                   Info("absolute-orientation", "quaternion", heading,
                        latestAccel, latestMag))
  /\ UNCHANGED <<platform, isActive, effectPending, pendingPermission,
                 permissionLog, providerRef, absSensorRef, accelRef, magRef, latestAccel,
                 latestMag, effects>>

\* Lines 160-166: the sensor raises an error, which deactivates it.
AbsError(e) ==
  /\ effects[e].abs = "on"
  /\ hbound.errors > 0
  /\ hbound' = [hbound EXCEPT !.errors = @ - 1]
  /\ ApplyHeap(e, startMagnetometer(
                    [HeapOf(e) EXCEPT !.eff.abs = "off", !.absSensorRef = 0],
                    e))
  /\ UNCHANGED <<platform, orientation, isActive, effectPending,
                 pendingPermission, latestAccel, latestMag, lastHeadingRef,
                 emits, permissionLog>>

\* Lines 217-245, after a sample was stored; angle is what atan2 yields for
\* the two samples held.
computeTiltCompensatedHeading(e, angle) ==
  IF latestAccel' = <<>> \/ latestMag' = <<>>
  THEN UNCHANGED <<orientation, lastHeadingRef, emits>>
  ELSE LET heading == normalizeAngle(Deg(angle)) IN
       updateHeading(e, normalizeAngle(Plus(heading, getScreenAngle)),
                     EmptyMap,
                     Info("magnetometer", "tilt", heading,
                          latestAccel', latestMag'))

\* The angle matters only when a heading is computed.
TiltAngles(a, m) == IF a = <<>> \/ m = <<>> THEN {0} ELSE Atan2Degrees

\* Lines 191-194.
AccelReading(e) ==
  /\ effects[e].accel = "on"
  /\ hbound.samples > 0
  /\ Sampled
  /\ latestAccel' = <<e>>
  /\ UNCHANGED latestMag
  /\ \E angle \in TiltAngles(<<e>>, latestMag) :
       computeTiltCompensatedHeading(e, angle)
  /\ UNCHANGED <<platform, isActive, effectPending, pendingPermission,
                 permissionLog, providerRef, absSensorRef, accelRef, magRef, effects>>

\* Lines 199-202.
MagReading(e) ==
  /\ effects[e].mag = "on"
  /\ hbound.samples > 0
  /\ Sampled
  /\ latestMag' = <<e>>
  /\ UNCHANGED latestAccel
  /\ \E angle \in TiltAngles(latestAccel, <<e>>) :
       computeTiltCompensatedHeading(e, angle)
  /\ UNCHANGED <<platform, isActive, effectPending, pendingPermission,
                 permissionLog, providerRef, absSensorRef, accelRef, magRef, effects>>

\* Lines 195-197: the accelerometer raises an error, which deactivates it;
\* the handler writes to the console.
AccelError(e) ==
  /\ effects[e].accel = "on"
  /\ hbound.errors > 0
  /\ hbound' = [hbound EXCEPT !.errors = @ - 1]
  /\ effects' = [effects EXCEPT ![e].accel = "off"]
  /\ UNCHANGED <<platform, orientation, isActive, effectPending,
                 pendingPermission, providerRef, absSensorRef, accelRef,
                 magRef, latestAccel, latestMag, lastHeadingRef, emits, permissionLog>>

\* Lines 203-208.
MagError(e) ==
  /\ effects[e].mag = "on"
  /\ hbound.errors > 0
  /\ hbound' = [hbound EXCEPT !.errors = @ - 1]
  /\ ApplyHeap(e, startDeviceOrientation(
                    stopMagnetometer([HeapOf(e) EXCEPT !.eff.mag = "off"])))
  /\ UNCHANGED <<platform, orientation, isActive, effectPending,
                 pendingPermission, latestAccel, latestMag, lastHeadingRef,
                 emits, permissionLog>>

\* The deviceorientation events delivered: with and without the vendor
\* heading, absolute or not, flat (beta = 0) or tilted; gamma is 0.
Alphas == IF hbound.wide THEN {0, 10, 180, 350} ELSE {350}
DeviceOrientationEvents ==
  {[webkitCompassHeading |-> w, absolute |-> ab, alpha |-> <<a>>,
    beta |-> <<b>>, gamma |-> <<0>>] :
     w \in {<<>>, <<10>>}, ab \in BOOLEAN, a \in Alphas, b \in {0, 45}}

\* Lines 266-286: the heading of the event before the screen correction,
\* <<>> when the event has none, and the branch that produced it.
EventHeading(ev) ==
  IF ev.webkitCompassHeading # <<>>
  THEN [path |-> "webkit", heading |-> <<Deg(ev.webkitCompassHeading[1])>>]
  ELSE IF ev.absolute /\ ev.alpha # <<>> /\ ev.beta # <<>> /\ ev.gamma # <<>>
  THEN [path |-> "euler",
        heading |-> <<computeCompassHeadingFromEuler(
                        ev.alpha[1], ev.beta[1], ev.gamma[1])>>]
  ELSE IF ev.alpha # <<>>
  THEN [path |-> "alpha",
        heading |-> <<Num(Rem((360 - ev.alpha[1]) * Scale, Turn))>>]
  ELSE [path |-> "none", heading |-> <<>>]

\* Line 290.
ScreenCorrected(eh) == normalizeAngle(Plus(eh.heading[1], getScreenAngle))

\* Lines 261-298: the listener of effect e receives the event ev.
handleOrientation(e, ev) ==
  /\ effects[e].listeners > 0
  /\ platform.devori
  /\ hbound.samples > 0
  /\ Sampled
  /\ LET eh == EventHeading(ev) IN
     /\ eh.heading # <<>>
     /\ updateHeading(e, ScreenCorrected(eh),
                      [alpha |-> ev.alpha, beta |-> ev.beta,
                       gamma |-> ev.gamma, absolute |-> ev.absolute],
                      Info("deviceorientation", eh.path, eh.heading[1],
                           latestAccel, latestMag))
  /\ UNCHANGED <<platform, isActive, effectPending, pendingPermission,
                 permissionLog, providerRef, absSensorRef, accelRef, magRef, latestAccel,
                 latestMag, effects>>

\* ---- specifications of the heading estimator
Platforms ==
  {p \in [abs : {"absent", "blocked", "ok"},
          mag : {"absent", "noAccel", "blocked", "ok"},
          devori : BOOLEAN, gated : BOOLEAN, angle : {0, 90}] :
     p.gated => p.devori}

\* Lines 65-91: the state of the hook when it is mounted on platform p.
HeadingInit(p, b) ==
  /\ platform = p
  /\ hbound = b
  /\ orientation = [alpha |-> <<>>, beta |-> <<>>, gamma |-> <<>>,
                    heading |-> <<>>, absolute |-> FALSE,
                    isSupported |-> (p.abs # "absent" \/ p.mag # "absent"
                                     \/ p.devori),
                    hasPermission |-> <<>>, error |-> "null"]
  /\ isActive = FALSE
  /\ effectPending = FALSE
  /\ pendingPermission = 0
  /\ providerRef = "null"
  /\ absSensorRef = 0
  /\ accelRef = 0
  /\ magRef = 0
  /\ latestAccel = <<>>
  /\ latestMag = <<>>
  /\ lastHeadingRef = <<>>
  /\ effects = <<>>
  /\ emits = <<>>
  /\ permissionLog = <<>>

\* The hook is not used.
HeadingIdle ==
  HeadingInit([abs |-> "absent", mag |-> "absent", devori |-> FALSE,
               gated |-> FALSE, angle |-> 0],
              [activations |-> 0, samples |-> 0, errors |-> 0, wide |-> FALSE])

\* ============================================================ application
\* Model of the venue loading of src/src/App.tsx (lines 16-29, 65-182).  One
\* action is one task of the event loop: a state change together with the
\* render it causes, the run of the effect of lines 112-182 (cleanup of the
\* previous run, then the body), the debounce timer, the answer of
\* getCityDetails, the continuation of loadEstablishments after its await.
\* The parameters are the user location (0: null, or a place) and the
\* search mode and city of the filters.
FilterChoices == {[searchMode |-> "proximity", city |-> ""],
                  [searchMode |-> "city", city |-> ""],
                  [searchMode |-> "city", city |-> "Lyon"]}
Places == {1, 2}
\* The venue list: the load that set it (0: none) and how many venues.
NoVenues == [load |-> 0, n |-> 0]

\* The cache key of the call a load makes: one per place in proximity mode,
\* one for the city.
KeyOfParams(p) == IF p.filters.searchMode = "city" THEN 3 ELSE p.userLocation

\* setUserLocation (lines 68-71, 76, 93-96) or setFilters (line 258) with a
\* new value, and the render.
SetState(p) ==
  /\ ~MicrotaskPending
  /\ ~appEffectPending
  /\ abound.changes > 0
  /\ p # params
  /\ params' = p
  /\ appEffectPending' = TRUE
  /\ lastChange' = now
  /\ abound' = [abound EXCEPT !.changes = @ - 1]
  /\ UNCHANGED <<timeouts, effectTimeout, timeoutCount, loads,
                 establishments, isLoading, toasts, counted>>

\* The first position is place 1, wherever that is.
setUserLocation(place) ==
  /\ params.userLocation = 0 => place = 1
  /\ SetState([params EXCEPT !.userLocation = place])
setFilters(newFilters) ==
  /\ params.userLocation # 0
  /\ SetState([params EXCEPT !.filters = newFilters])

\* Line 181: clearTimeout(timeoutId); the id is 0 when the previous run of
\* the effect returned before setTimeout.
clearTimeout(pending, timeoutId) == {t \in pending : t.id # timeoutId}

\* The effect of lines 112-182 runs after a render that changed userLocation
\* or filters: the cleanup of the previous run, then the body.
LoadEffect ==
  /\ ~MicrotaskPending
  /\ appEffectPending
  /\ appEffectPending' = FALSE
  /\ LET cleared == clearTimeout(timeouts, effectTimeout) IN
     IF params.userLocation = 0
     THEN /\ timeouts' = cleared
          /\ effectTimeout' = 0
          /\ UNCHANGED <<establishments, timeoutCount>>
     ELSE IF params.filters.searchMode = "city" /\ params.filters.city = ""
     THEN /\ timeouts' = cleared
          /\ effectTimeout' = 0
          /\ establishments' = NoVenues
          /\ UNCHANGED timeoutCount
     ELSE \* lines 177-179: the timer and its closure
          /\ timeouts' = cleared \cup {[id |-> timeoutCount + 1,
                                        due |-> now + 1000,
                                        params |-> params]}
          /\ effectTimeout' = timeoutCount + 1
          /\ timeoutCount' = timeoutCount + 1
          /\ UNCHANGED establishments
  /\ UNCHANGED <<params, lastChange, loads, isLoading, toasts, counted,
                 abound>>

\* loadEstablishments up to its first await: lines 122-131 in city mode,
\* lines 122-153 and queryOverpass up to its own first await otherwise.
NewLoad(t, pc, call) ==
  [params |-> t.params, timeout |-> t.id, pc |-> pc, call |-> call,
   result |-> "pending"]

\* The timer of line 177 fires.
TimeoutFires(t) ==
  /\ ~MicrotaskPending
  /\ t \in timeouts
  /\ now >= t.due
  /\ timeouts' = timeouts \ {t}
  /\ isLoading' = TRUE
  /\ IF t.params.filters.searchMode = "city"
     THEN /\ loads' = Append(loads, NewLoad(t, "city", 0))
          /\ UNCHANGED vars
     ELSE /\ loads' = Append(loads, NewLoad(t, "query", Len(calls) + 1))
          /\ queryOverpass(KeyOfParams(t.params))
  /\ UNCHANGED <<params, appEffectPending, lastChange, effectTimeout,
                 timeoutCount, establishments, toasts, counted, abound>>

\* getCityDetails answers (line 131): a city, or null when the lookup found
\* nothing or failed (nominatim.ts lines 170-178).
CityDetails(l, found) ==
  /\ ~MicrotaskPending
  /\ l \in 1..Len(loads)
  /\ loads[l].pc = "city"
  /\ IF found
     THEN \* lines 138-153
          /\ toasts' = Append(toasts, [load |-> l, kind |-> "searching"])
          /\ loads' = [loads EXCEPT ![l].pc = "query",
                                    ![l].call = Len(calls) + 1]
          /\ queryOverpass(KeyOfParams(loads[l].params))
          /\ UNCHANGED <<establishments, isLoading>>
     ELSE \* lines 132-137
          /\ toasts' = Append(toasts, [load |-> l, kind |-> "cityNotFound"])
          /\ establishments' = NoVenues
          /\ isLoading' = FALSE
          /\ loads' = [loads EXCEPT ![l].pc = "done",
                                    ![l].result = "cityNotFound"]
          /\ UNCHANGED vars
  /\ UNCHANGED <<params, appEffectPending, lastChange, timeouts,
                 effectTimeout, timeoutCount, counted, abound>>

\* Whether the message of an error contains '429' (line 165).  The message
\* of a 429 answer is 'Trop de requêtes (429) sur ...' (line 528), that of
\* another status 'Overpass API error: <status>' (line 533), that of
\* exhaustion the text of line 544; the message of an exception of fetch or
\* of response.json() is the platform's.
includes429(error) ==
  CASE error.kind = "429" -> {TRUE}
    [] error.kind = "http" -> {FALSE}
    [] error.kind = "exhausted" -> {FALSE}
    [] OTHER -> {TRUE, FALSE}

\* The await of line 147 returns or throws: lines 155-172.
LoadSettles(l) ==
  /\ l \in 1..Len(loads)
  /\ loads[l].pc = "query"
  /\ calls[loads[l].call].outcome # None
  /\ LET outcome == calls[loads[l].call].outcome IN
     IF outcome[1] = "ok"
     THEN \* lines 155-161; the number of venues of a result is the same
          \* whenever the result is seen again
          \E n \in IF outcome[2] \in DOMAIN counted
                    THEN {counted[outcome[2]]} ELSE {0, 2} :
            /\ counted' = MapSet(counted, outcome[2], n)
            /\ establishments' = [load |-> l, n |-> n]
            /\ toasts' = Append(toasts,
                 [load |-> l,
                  kind |-> IF n > 0 THEN "found" ELSE "widenRadius"])
            /\ loads' = [loads EXCEPT ![l].pc = "done", ![l].result = "ok"]
     ELSE \* lines 162-170
          \E mentions429 \in includes429(outcome[2]) :
            /\ toasts' = Append(toasts,
                 [load |-> l,
                  kind |-> IF mentions429 THEN "tooManyRequests"
                           ELSE "pleaseRetry"])
            /\ establishments' = NoVenues
            /\ loads' = [loads EXCEPT ![l].pc = "done",
                                      ![l].result = "failed"]
            /\ UNCHANGED counted
  /\ isLoading' = FALSE
  /\ UNCHANGED <<params, appEffectPending, lastChange, timeouts,
                 effectTimeout, timeoutCount, abound>>
  /\ UNCHANGED vars

AppInit(b) ==
  /\ params = [userLocation |-> 0,
               filters |-> [searchMode |-> "proximity", city |-> ""]]
  /\ appEffectPending = FALSE
  /\ lastChange = 0
  /\ timeouts = {}
  /\ effectTimeout = 0
  /\ timeoutCount = 0
  /\ loads = <<>>
  /\ establishments = NoVenues
  /\ isLoading = FALSE
  /\ toasts = <<>>
  /\ counted = EmptyMap
  /\ abound = b

\* The application is not used.
AppIdle == AppInit([changes |-> 0])

\* ============================================================ city search
\* Model of searchCities (src/src/services/nominatim.ts lines 36-156).  A
\* query is the sequence of its characters; a list of cities is <<>> when
\* empty, else <<"cities", s>>: what the answer to the search s held.
MIN_REQUEST_INTERVAL == 300
SEARCH_CACHE_DURATION == 600000      \* 10 * 60 * 1000

Queries == {<<>>, <<"l">>, <<"l", "y">>, <<"L", "y">>}
Limits == {1, 5}

toLowerCase(query) ==
  [i \in DOMAIN query |-> IF query[i] = "L" THEN "l" ELSE query[i]]

\* Line 56.
SearchKey(query, limit) == toLowerCase(query) \o <<"-", ToString(limit)>>

NewSearch(query, limit, pc, value) ==
  [query |-> query, limit |-> limit, pc |-> pc, wake |-> 0, value |-> value]

\* Lines 68 and 82: the timestamp is taken and the request is sent.
SendRequest(s) ==
  /\ lastRequestTime' = now
  /\ cityRequests' = Append(cityRequests, [search |-> s, time |-> now])

\* A caller calls searchCities: lines 51-82, up to the first await.
searchCities(query, limit) ==
  /\ ~MicrotaskPending
  /\ Len(searches) < sbound.calls
  /\ LET s == Len(searches) + 1
         cacheKey == SearchKey(query, limit)
         timeSinceLastRequest == now - lastRequestTime
     IN IF Len(query) < 2
        THEN /\ searches' = Append(searches, NewSearch(query, limit, "done", <<>>))
             /\ UNCHANGED <<lastRequestTime, cityRequests>>
        ELSE IF cacheKey \in DOMAIN searchCache
        THEN /\ searches' = Append(searches,
                   NewSearch(query, limit, "done", searchCache[cacheKey]))
             /\ UNCHANGED <<lastRequestTime, cityRequests>>
        ELSE IF timeSinceLastRequest < MIN_REQUEST_INTERVAL
        THEN /\ searches' = Append(searches,
                   [NewSearch(query, limit, "throttle", <<>>) EXCEPT
                      !.wake = now + (MIN_REQUEST_INTERVAL
                                      - timeSinceLastRequest)])
             /\ UNCHANGED <<lastRequestTime, cityRequests>>
        ELSE /\ searches' = Append(searches,
                   NewSearch(query, limit, "fetching", <<>>))
             /\ SendRequest(s)
  /\ UNCHANGED <<searchCache, searchTimers, sbound>>

\* The timer of line 66 fires: lines 68-82.
ThrottleWake(s) ==
  /\ ~MicrotaskPending
  /\ searches[s].pc = "throttle"
  /\ now >= searches[s].wake
  /\ searches' = [searches EXCEPT ![s].pc = "fetching"]
  /\ SendRequest(s)
  /\ UNCHANGED <<searchCache, searchTimers, sbound>>

\* The geocoding service answers the request of the search s (lines
\* 91-154).  "empty" is an answer in which lines 98-140 keep no place;
\* "exception" is whatever the catch of line 152 catches besides
\* the error of line 92: fetch or response.json() rejects, or the
\* transformation of lines 98-140 throws.
SearchResponse(s, status) ==
  /\ ~MicrotaskPending
  /\ searches[s].pc = "fetching"
  /\ IF status \in {"ok", "empty"}
     THEN LET cacheKey == SearchKey(searches[s].query, searches[s].limit)
              cities == IF status = "ok" THEN <<"cities", s>> ELSE <<>>
          IN /\ searchCache' = MapSet(searchCache, cacheKey, cities)
             /\ searchTimers' = searchTimers \cup
                  {[search |-> s, key |-> cacheKey,
                    due |-> now + SEARCH_CACHE_DURATION]}
             /\ searches' = [searches EXCEPT ![s].pc = "done",
                                             ![s].value = cities]
             /\ UNCHANGED sbound
     ELSE /\ sbound.failures > 0
          /\ sbound' = [sbound EXCEPT !.failures = @ - 1]
          /\ searches' = [searches EXCEPT ![s].pc = "done"]
          /\ UNCHANGED <<searchCache, searchTimers>>
  /\ UNCHANGED <<lastRequestTime, cityRequests>>

\* The timer of line 147 fires: searchCache.delete(cacheKey).
SearchCacheTimerFires(t) ==
  /\ ~MicrotaskPending
  /\ t \in searchTimers
  /\ now >= t.due
  /\ searchCache' = MapDelete(searchCache, {t.key})
  /\ searchTimers' = searchTimers \ {t}
  /\ UNCHANGED <<lastRequestTime, searches, cityRequests, sbound>>

SearchInit(b) ==
  /\ searchCache = EmptyMap
  /\ lastRequestTime = 0
  /\ searches = <<>>
  /\ cityRequests = <<>>
  /\ searchTimers = {}
  /\ sbound = b

\* No city is searched.
SearchIdle == SearchInit([calls |-> 0, failures |-> 0])

\* ============================================================ geolocation
\* Model of useGeolocation (src/unnamed/part_002 lines 145-278).  The
\* functions start, stop, startWatch, onSuccess and onError that a caller or
\* the platform holds are those of one render: they see the profile of that
\* render (closure), and the refs as they are now.  A watch is [id, since,
\* closure]: since is when it was started or last called back.
BACKOFF_START == 5000
BACKOFF_MAX == 60000

\* Lines 171-180: what clearWatch leaves of the watches and of the timers.
ClearedWatches == {w \in watching : w.id # watchIdRef}
ClearedTimers(timers) == {t \in timers : t.id # backoffTimerRef}

\* Lines 182-191, for a fix received by the functions of a render that saw
\* the profile closure; accurate: accuracy < 30.
ProfileAfterFix(closure, accurate) ==
  IF closure = "balanced" /\ accurate THEN "high" ELSE profile

\* Lines 193-208, with the timers that are pending when it is called and the
\* error the caller leaves.
startWatch(closure, timers, err) ==
  /\ restartTimers' = ClearedTimers(timers)
  /\ backoffTimerRef' = 0
  /\ IF lbound.supported
     THEN /\ watchCount' = watchCount + 1
          /\ watchIdRef' = watchCount + 1
          /\ watching' = ClearedWatches \cup
               {[id |-> watchCount + 1, since |-> now, closure |-> closure]}
          /\ geoError' = err
          /\ isWatching' = TRUE
     ELSE /\ watching' = ClearedWatches
          /\ watchIdRef' = 0
          /\ geoError' = "unsupported"
          /\ isWatching' = FALSE
          /\ UNCHANGED watchCount

\* Lines 259-262.
StopNow ==
  /\ watching' = ClearedWatches
  /\ watchIdRef' = 0
  /\ restartTimers' = ClearedTimers(restartTimers)
  /\ backoffTimerRef' = 0
  /\ isWatching' = FALSE
  /\ stopped' = TRUE

\* The caller calls start(): lines 235-250, up to the await; without the
\* platform's geolocation all of lines 235-257.
start ==
  /\ ~MicrotaskPending
  /\ lbound.starts > 0
  /\ lbound' = [lbound EXCEPT !.starts = @ - 1]
  /\ stopped' = FALSE
  /\ IF lbound.supported
     THEN /\ starting' = Append(starting, profile)
          /\ UNCHANGED <<geoLocation, geoError, isWatching, profile,
                         lastFixAtRef, watchIdRef, backoffRef,
                         backoffTimerRef, watching, watchCount,
                         restartTimers, restartCount, oneShots>>
     ELSE /\ backoffRef' = BACKOFF_START
          /\ profile' = "balanced"
          /\ startWatch(profile, restartTimers, "unsupported")
          /\ UNCHANGED <<geoLocation, lastFixAtRef, restartCount, starting,
                         oneShots>>

\* The platform answers the getCurrentPosition of line 240 of the i-th
\* pending start(): lines 241-242 and 253-256.  fix is "fine" (accuracy
\* below 30), "coarse" or "none" (the error callback).
InitialFix(i, fix) ==
  /\ ~MicrotaskPending
  /\ i \in 1..Len(starting)
  /\ starting' = [k \in 1..(Len(starting) - 1) |->
                    IF k < i THEN starting[k] ELSE starting[k + 1]]
  /\ IF fix = "none"
     THEN UNCHANGED <<geoLocation, lastFixAtRef>>
     ELSE geoLocation' = fix /\ lastFixAtRef' = now
  /\ backoffRef' = BACKOFF_START
  /\ profile' = "balanced"
  /\ startWatch(starting[i], restartTimers,
                IF fix = "none" THEN geoError ELSE "null")
  /\ UNCHANGED <<restartCount, oneShots, stopped, lbound>>

\* The watch w calls onSuccess (lines 182-191).
WatchFix(w, fix) ==
  /\ ~MicrotaskPending
  /\ w \in watching
  /\ lbound.fixes > 0
  /\ lbound' = [lbound EXCEPT !.fixes = @ - 1]
  /\ geoLocation' = fix
  /\ geoError' = "null"
  /\ lastFixAtRef' = now
  /\ profile' = ProfileAfterFix(w.closure, fix = "fine")
  /\ watching' = (watching \ {w}) \cup {[w EXCEPT !.since = now]}
  /\ UNCHANGED <<isWatching, watchIdRef, backoffRef, backoffTimerRef,
                 watchCount, restartTimers, restartCount, starting,
                 oneShots, stopped>>

\* The watch w calls onError (lines 210-233).  The platform reports a
\* timeout (code 3) when no position was acquired for the timeout the watch
\* was given, and goes on watching.
WatchError(w, code) ==
  /\ ~MicrotaskPending
  /\ w \in watching
  /\ lbound.errors > 0
  /\ lbound' = [lbound EXCEPT !.errors = @ - 1]
  /\ IF code = 3
     THEN LET next == Min(backoffRef * 2, BACKOFF_MAX) IN
          /\ now >= w.since + ProfileTimeout(w.closure)
          /\ profile' = "degraded"
          /\ backoffRef' = next
          /\ restartCount' = restartCount + 1
          /\ backoffTimerRef' = restartCount + 1
          /\ restartTimers' = restartTimers \cup
               {[id |-> restartCount + 1, due |-> now + next,
                 delay |-> next, closure |-> w.closure]}
          /\ watching' = (watching \ {w}) \cup {[w EXCEPT !.since = now]}
          /\ UNCHANGED <<geoError, isWatching, watchIdRef, oneShots,
                         stopped>>
     ELSE IF code = 1
     THEN /\ geoError' = "denied"
          /\ StopNow
          /\ UNCHANGED <<profile, backoffRef, restartCount, oneShots>>
     ELSE /\ geoError' = "unavailable"
          /\ oneShots' = Append(oneShots, w.closure)
          /\ watching' = (watching \ {w}) \cup {[w EXCEPT !.since = now]}
          /\ UNCHANGED <<isWatching, profile, watchIdRef, backoffRef,
                         backoffTimerRef, restartTimers, restartCount,
                         stopped>>
  /\ UNCHANGED <<geoLocation, lastFixAtRef, watchCount, starting>>

\* The platform answers the i-th pending getCurrentPosition of line 226.
OneShotAnswer(i, fix) ==
  /\ ~MicrotaskPending
  /\ i \in 1..Len(oneShots)
  /\ oneShots' = [k \in 1..(Len(oneShots) - 1) |->
                    IF k < i THEN oneShots[k] ELSE oneShots[k + 1]]
  /\ IF fix = "none"
     THEN UNCHANGED <<geoLocation, geoError, lastFixAtRef, profile>>
     ELSE /\ geoLocation' = fix
          /\ geoError' = "null"
          /\ lastFixAtRef' = now
          /\ profile' = ProfileAfterFix(oneShots[i], fix = "fine")
  /\ UNCHANGED <<isWatching, watchIdRef, backoffRef, backoffTimerRef,
                 watching, watchCount, restartTimers, restartCount,
                 starting, stopped, lbound>>

\* The timer of line 218 fires: startWatch.
RestartTimerFires(t) ==
  /\ ~MicrotaskPending
  /\ t \in restartTimers
  /\ now >= t.due
  /\ startWatch(t.closure, restartTimers \ {t}, geoError)
  /\ UNCHANGED <<geoLocation, profile, lastFixAtRef, backoffRef,
                 restartCount, starting, oneShots, stopped, lbound>>

\* The caller calls stop() (lines 259-262).
stop ==
  /\ ~MicrotaskPending
  /\ lbound.stops > 0
  /\ lbound' = [lbound EXCEPT !.stops = @ - 1]
  /\ StopNow
  /\ UNCHANGED <<geoLocation, geoError, profile, lastFixAtRef, backoffRef,
                 watchCount, restartCount, starting, oneShots>>

WatchInit(b) ==
  /\ geoLocation = "null"
  /\ geoError = "null"
  /\ isWatching = FALSE
  /\ profile = "balanced"
  /\ lastFixAtRef = 0
  /\ watchIdRef = 0
  /\ backoffRef = BACKOFF_START
  /\ backoffTimerRef = 0
  /\ watching = {}
  /\ watchCount = 0
  /\ restartTimers = {}
  /\ restartCount = 0
  /\ starting = <<>>
  /\ oneShots = <<>>
  /\ stopped = FALSE
  /\ lbound = b

\* The hook is not used.
WatchIdle ==
  WatchInit([starts |-> 0, stops |-> 0, errors |-> 0, fixes |-> 0,
             supported |-> TRUE])


\* No pure function is being applied.
Probe(fn, in) == [fn |-> fn, in |-> in, out |-> <<>>]
ProbeIdle == probe = Probe("none", <<>>)

\* ------------------------------------------------------------ specification
InitState(e, b) ==
  /\ now = Epoch
  /\ env = e
  /\ bound = b
  /\ cache = EmptyMap
  /\ inFlightRequests = EmptyMap
  /\ currentInstanceIndex = 0
  /\ lastRequestTs = 0
  /\ recentRequests = <<>>
  /\ rateLimiterChain = 0
  /\ tickets = <<>>
  /\ runs = EmptyMap
  /\ calls = <<>>
  /\ requests = <<>>

Init ==
  /\ InitState(DefaultEnv, [calls |-> MaxCalls, failures |-> MaxFailures,
                            jitter |-> MaxJitter, keys |-> NumKeys])
  /\ HeadingIdle
  /\ ProbeIdle
  /\ AppIdle
  /\ SearchIdle
  /\ WatchIdle

Next ==
  \/ (\E k \in 1..bound.keys : queryOverpass(k)) /\ UNCHANGED <<hvars, pvars, avars, svars, lvars>>
  \/ (\E t \in 1..Len(tickets) : LimiterStart(t)) /\ UNCHANGED <<hvars, pvars, avars, svars, lvars>>
  \/ (\E t \in 1..Len(tickets) : LimiterWakeInterval(t)) /\ UNCHANGED <<hvars, pvars, avars, svars, lvars>>
  \/ (\E t \in 1..Len(tickets) : LimiterWakeWindow(t)) /\ UNCHANGED <<hvars, pvars, avars, svars, lvars>>
  \/ (\E r \in DOMAIN runs : \E st \in Statuses : FetchResponse(r, st))
       /\ UNCHANGED <<hvars, pvars, avars, svars, lvars>>
  \/ (\E r \in DOMAIN runs : BackoffWake429(r)) /\ UNCHANGED <<hvars, pvars, avars, svars, lvars>>
  \/ (\E r \in DOMAIN runs : BackoffWakeNet(r)) /\ UNCHANGED <<hvars, pvars, avars, svars, lvars>>
  \/ Advance /\ UNCHANGED <<hvars, pvars, avars, svars, lvars>>

Spec == Init /\ [][Next]_vars

\* The settings of lines 209-212, set to small, zero and invalid values.
EnvChoices ==
  [MIN_INTERVAL_MS : {<<>>, <<0>>}, WINDOW_MS : {<<>>, <<3000>>},
   MAX_REQUESTS_PER_WINDOW : {<<>>, <<1>>}, BACKOFF_BASE_MS : {<<>>, <<-1>>}]

InitCfg ==
  /\ \E e \in EnvChoices :
       InitState(e, [calls |-> MaxCallsCfg, failures |-> MaxFailuresCfg,
                     jitter |-> MaxJitterCfg, keys |-> NumKeys])
  /\ HeadingIdle
  /\ ProbeIdle
  /\ AppIdle
  /\ SearchIdle
  /\ WatchIdle

SpecCfg == InitCfg /\ [][Next]_vars

InitOne ==
  /\ InitState(DefaultEnv, [calls |-> MaxCallsOne,
                            failures |-> MaxFailuresOne,
                            jitter |-> 0, keys |-> 1])
  /\ HeadingIdle
  /\ ProbeIdle
  /\ AppIdle
  /\ SearchIdle
  /\ WatchIdle

\* Every fetch settles, every timer fires, every queued continuation runs
\* and time passes.
Fairness ==
  /\ WF_vars(\E t \in 1..Len(tickets) : LimiterStart(t))
  /\ WF_vars(\E t \in 1..Len(tickets) : LimiterWakeInterval(t))
  /\ WF_vars(\E t \in 1..Len(tickets) : LimiterWakeWindow(t))
  /\ WF_vars(\E r \in DOMAIN runs : \E st \in Statuses : FetchResponse(r, st))
  /\ WF_vars(\E r \in DOMAIN runs : BackoffWake429(r))
  /\ WF_vars(\E r \in DOMAIN runs : BackoffWakeNet(r))
  /\ WF_vars(Advance)

SpecOne == InitOne /\ [][Next]_vars /\ Fairness

\* Concurrent queries whose fetches settle and whose timers fire.
SpecFair == Init /\ [][Next]_vars /\ Fairness

\* One query whose attempts may all fail, with the extreme jitter draws.
InitRetry ==
  /\ InitState(DefaultEnv, [calls |-> MaxCallsRetry,
                            failures |-> MaxFailuresOne,
                            jitter |-> MaxJitterRetry, keys |-> 1])
  /\ HeadingIdle
  /\ ProbeIdle
  /\ AppIdle
  /\ SearchIdle
  /\ WatchIdle

SpecRetry == InitRetry /\ [][Next]_vars

\* The heading estimator on every platform, the geo query engine unused.
GeoIdle == InitState(DefaultEnv, [calls |-> 0, failures |-> 0, jitter |-> 0,
                                 keys |-> 0])

InitHeading ==
  /\ GeoIdle
  /\ ProbeIdle
  /\ AppIdle
  /\ SearchIdle
  /\ WatchIdle
  /\ \E p \in Platforms :
       HeadingInit(p, [activations |-> MaxActivations, samples |-> MaxSamples,
                       errors |-> MaxSensorErrors, wide |-> FALSE])

NextHeading ==
  \/ requestPermission /\ UNCHANGED <<vars, pvars, avars, svars, lvars>>
  \/ (\E answer \in PermissionAnswers : PermissionAnswer(answer))
       /\ UNCHANGED <<vars, pvars, avars, svars, lvars>>
  \/ stopTracking /\ UNCHANGED <<vars, pvars, avars, svars, lvars>>
  \/ FlushEffects /\ UNCHANGED <<vars, pvars, avars, svars, lvars>>
  \/ (\E e \in 1..Len(effects) : \E yaw \in Atan2Degrees : AbsReading(e, yaw))
       /\ UNCHANGED <<vars, pvars, avars, svars, lvars>>
  \/ (\E e \in 1..Len(effects) : AbsError(e)) /\ UNCHANGED <<vars, pvars, avars, svars, lvars>>
  \/ (\E e \in 1..Len(effects) : AccelReading(e)) /\ UNCHANGED <<vars, pvars, avars, svars, lvars>>
  \/ (\E e \in 1..Len(effects) : MagReading(e)) /\ UNCHANGED <<vars, pvars, avars, svars, lvars>>
  \/ (\E e \in 1..Len(effects) : AccelError(e)) /\ UNCHANGED <<vars, pvars, avars, svars, lvars>>
  \/ (\E e \in 1..Len(effects) : MagError(e)) /\ UNCHANGED <<vars, pvars, avars, svars, lvars>>
  \/ (\E e \in 1..Len(effects) : \E ev \in DeviceOrientationEvents :
        handleOrientation(e, ev)) /\ UNCHANGED <<vars, pvars, avars, svars, lvars>>

SpecHeading == InitHeading /\ [][NextHeading]_<<vars, hvars>>

\* The smoothing of lines 105-114 on headings all around the circle.
InitSmooth ==
  /\ GeoIdle
  /\ ProbeIdle
  /\ AppIdle
  /\ SearchIdle
  /\ WatchIdle
  /\ HeadingInit([abs |-> "ok", mag |-> "ok", devori |-> TRUE,
                  gated |-> TRUE, angle |-> 0],
                 [activations |-> MaxActivationsSmooth,
                  samples |-> MaxSamplesSmooth,
                  errors |-> MaxSensorErrorsSmooth, wide |-> TRUE])

SpecSmooth == InitSmooth /\ [][NextHeading]_<<vars, hvars>>

\* ============================================ response mapping and queries
\* The pure functions of src/src/services/nominatim.ts: the mapping of the
\* elements of a response (lines 584-616), the two query builders and
\* getCacheKey.  A specification applies them to inputs drawn from bounded
\* sets and keeps the last application in probe.
EstablishmentTypes == {"bar", "wine-cellar", "nightclub", "supermarket",
                       "restaurant", "liquor-store"}

\* An absent property is <<>>, a present one <<value>>.  Tags are a record
\* of the keys present.
Tag(tags, k) == IF k \in DOMAIN tags THEN <<tags[k]>> ELSE <<>>

\* "pub" is not in the table.
mapOsmTagsToTypeNoPub(tags) ==
  LET amenity == Tag(tags, "amenity")
      shop == Tag(tags, "shop") IN
  IF amenity = <<"bar">> THEN <<"bar">>
  ELSE IF amenity = <<"nightclub">> THEN <<"nightclub">>
  ELSE IF shop = <<"wine">> THEN <<"wine-cellar">>
  ELSE IF shop \in {<<"alcohol">>, <<"beverages">>} THEN <<"liquor-store">>
  ELSE IF amenity = <<"restaurant">> THEN <<"restaurant">>
  ELSE IF shop \in {<<"supermarket">>, <<"convenience">>}
  THEN <<"supermarket">>
  ELSE <<>>

\* Lines 288-297; <<>> is null.
mapOsmTagsToType(tags) ==
  LET amenity == Tag(tags, "amenity")
      shop == Tag(tags, "shop") IN
  IF amenity \in {<<"bar">>, <<"pub">>} THEN <<"bar">>
  ELSE IF amenity = <<"nightclub">> THEN <<"nightclub">>
  ELSE IF shop = <<"wine">> THEN <<"wine-cellar">>
  ELSE IF shop \in {<<"alcohol">>, <<"beverages">>} THEN <<"liquor-store">>
  ELSE IF amenity = <<"restaurant">> THEN <<"restaurant">>
  ELSE IF shop \in {<<"supermarket">>, <<"convenience">>}
  THEN <<"supermarket">>
  ELSE <<>>

\* A schedule other than '24/7' closes the venue.
isEstablishmentOpenParsed(tags) ==
  IF Tag(tags, "opening_hours") \in {<<>>, <<"">>} THEN TRUE
  ELSE IF Tag(tags, "opening_hours") = <<"24/7">> THEN TRUE
  ELSE FALSE

\* Lines 300-311: !tags.opening_hours holds of an absent and of an empty
\* schedule; the last branch returns true as well.
isEstablishmentOpen(tags) ==
  IF Tag(tags, "opening_hours") \in {<<>>, <<"">>} THEN TRUE
  ELSE IF Tag(tags, "opening_hours") = <<"24/7">> THEN TRUE
  ELSE TRUE

\* A number used as a condition: undefined and 0 are falsy.
Truthy(n) == n # <<>> /\ n # <<0>>

\* Lines 596-606: the coordinates of the element, <<>> when it has none.
Coordinates(element) ==
  IF element.type = "node" /\ Truthy(element.lat) /\ Truthy(element.lon)
  THEN <<[lat |-> element.lat[1], lng |-> element.lon[1]]>>
  ELSE IF element.center # <<>>
  THEN <<[lat |-> element.center[1].lat, lng |-> element.center[1].lon]>>
  ELSE <<>>

\* Lines 585-616: the callback of map; <<>> is null.
MapElement(element) ==
  IF element.tags = <<>> THEN <<>>
  ELSE LET tags == element.tags[1]
           type == mapOsmTagsToType(tags)
           at == Coordinates(element)
       IN IF type = <<>> \/ at = <<>> THEN <<>>
          ELSE <<[id |-> <<element.type, element.id>>,
                  name |-> IF Tag(tags, "name") \in {<<>>, <<"">>}
                           THEN <<type[1], "sans nom">>
                           ELSE <<tags.name>>,
                  type |-> type[1],
                  lat |-> at[1].lat, lng |-> at[1].lng,
                  isOpen |-> isEstablishmentOpen(tags),
                  tags |-> tags]>>

\* Lines 584-616: data.elements.map(...).filter(est => est !== null).
RECURSIVE Establishments(_)
Establishments(elements) ==
  IF elements = <<>> THEN <<>>
  ELSE MapElement(Head(elements)) \o Establishments(Tail(elements))

\* App.tsx lines 192-196: establishments.filter(...) with the open-only
\* criterion of the filters.
filteredEstablishments(venues, openOnly) ==
  LET Kept(est) == ~(openOnly /\ ~est.isOpen) IN
  SelectSeq(venues, Kept)

\* The clauses pushed for one category: lines 331-336 (bar), 338-341,
\* 343-346, 348-353, 355-358 and 360-365, and the same table at lines 414-449.
OnePredicate(key, value, area) ==
  <<[kind |-> "node", key |-> key, value |-> value, area |-> area],
    [kind |-> "way", key |-> key, value |-> value, area |-> area]>>
TwoPredicates(key, v1, v2, area) ==
  <<[kind |-> "node", key |-> key, value |-> v1, area |-> area],
    [kind |-> "node", key |-> key, value |-> v2, area |-> area],
    [kind |-> "way", key |-> key, value |-> v1, area |-> area],
    [kind |-> "way", key |-> key, value |-> v2, area |-> area]>>
includes(types, t) == \E i \in 1..Len(types) : types[i] = t

\* The clauses of the union for a list of categories, in the order pushed.
Filters(types, area) ==
  (IF includes(types, "bar")
   THEN TwoPredicates("amenity", "bar", "pub", area) ELSE <<>>)
  \o (IF includes(types, "nightclub")
      THEN OnePredicate("amenity", "nightclub", area) ELSE <<>>)
  \o (IF includes(types, "wine-cellar")
      THEN OnePredicate("shop", "wine", area) ELSE <<>>)
  \o (IF includes(types, "liquor-store")
      THEN TwoPredicates("shop", "alcohol", "beverages", area) ELSE <<>>)
  \o (IF includes(types, "restaurant")
      THEN OnePredicate("amenity", "restaurant", area) ELSE <<>>)
  \o (IF includes(types, "supermarket")
      THEN TwoPredicates("shop", "supermarket", "convenience", area)
      ELSE <<>>)

\* Lines 313-383: the radius is given in kilometres; the area of a clause is
\* (around:r,lat,lng).
buildOverpassQuery(lat, lng, radius, types) ==
  Filters(types, [shape |-> "around", of |-> <<radius * 1000, lat, lng>>])

\* The area is always the 20 km disc.
areaQueryDiscOnly(lat, lng, boundingbox) ==
  [shape |-> "around", of |-> <<20000, lat, lng>>]

\* Lines 399-409: boundingbox is <<>> when undefined, else <<components>>
\* in the order [min_lat, max_lat, min_lon, max_lon]; the area is
\* (south,west,north,east) or (around:20000,lat,lng).
areaQuery(lat, lng, boundingbox) ==
  IF boundingbox # <<>> /\ Len(boundingbox[1]) = 4
  THEN [shape |-> "bbox",
        of |-> <<boundingbox[1][1], boundingbox[1][3],
                 boundingbox[1][2], boundingbox[1][4]>>]
  ELSE [shape |-> "around", of |-> <<20000, lat, lng>>]

\* Lines 386-461.
buildOverpassQueryByCity(lat, lng, boundingbox, types) ==
  Filters(types, areaQuery(lat, lng, boundingbox))

\* Lines 575-577: cityData is <<>> when undefined.
QueryFor(lat, lng, radius, types, searchMode, cityData) ==
  IF searchMode = "city" /\ cityData # <<>>
  THEN buildOverpassQueryByCity(lat, lng, cityData[1].boundingbox, types)
  ELSE buildOverpassQuery(lat, lng, radius, types)

\* The default comparison of Array.prototype.sort on the category names:
\* the order of their UTF-16 code units.
Rank(t) ==
  CASE t = "bar" -> 1
    [] t = "liquor-store" -> 2
    [] t = "nightclub" -> 3
    [] t = "restaurant" -> 4
    [] t = "supermarket" -> 5
    [] t = "wine-cellar" -> 6

RECURSIVE Insert(_, _)
Insert(sorted, t) ==
  IF sorted = <<>> THEN <<t>>
  ELSE IF Rank(t) < Rank(Head(sorted)) THEN <<t>> \o sorted
  ELSE <<Head(sorted)>> \o Insert(Tail(sorted), t)

RECURSIVE sort(_)
\* The list is left as given.
sortNot(types) == types

\* types.sort() of line 478.
sort(types) ==
  IF types = <<>> THEN <<>> ELSE Insert(sort(Tail(types)), Head(types))

\* join(','): a string is the sequence of its tokens.
RECURSIVE join(_)
join(types) ==
  IF types = <<>> THEN <<>>
  ELSE IF Len(types) = 1 THEN <<types[1]>>
  ELSE <<Head(types), ",">> \o join(Tail(types))

\* Math.round(x * 100) / 100 of lines 483-484, for a coordinate x given in
\* thousandths of a degree; the result is in hundredths.  Math.round rounds
\* a half towards plus infinity.
Round2(x) == (x + 5) \div 10

\* Lines 470-486: city is <<>> when undefined, else <<name>>, a name being
\* the sequence of its tokens; the empty name is falsy.
getCacheKey(lat, lng, radius, types, searchMode, city) ==
  LET typesStr == join(sort(types)) IN
  IF searchMode = "city" /\ city # <<>> /\ city # << <<>> >>
  THEN <<"city", ":">> \o city[1] \o <<":">> \o typesStr
  ELSE <<"proximity", ":", ToString(Round2(lat)), ":",
         ToString(Round2(lng)), ":", ToString(radius), ":">> \o typesStr

\* ------------------------------------------- applying the pure functions
\* The elements a response may hold.  Coordinates are whole degrees; 0 is
\* the equator or the Greenwich meridian.
ElementShapes ==
  [type : {"node", "way"},
   at : {<<>>, <<0, 2>>, <<48, 0>>, <<48, 2>>},
   center : {<<>>, <<[lat |-> 10, lon |-> 20]>>},
   tags : {<<>>, << <<>> >>,
           <<[amenity |-> "pub"]>>, <<[amenity |-> "restaurant"]>>,
           <<[amenity |-> "cafe"]>>,
           <<[amenity |-> "pub", name |-> "Chez Zoe"]>>,
           <<[amenity |-> "restaurant", name |-> "Chez Zoe"]>>,
           <<[amenity |-> "cafe", name |-> "Chez Zoe"]>>,
           <<[shop |-> "wine"]>>, <<[shop |-> "convenience"]>>,
           <<[amenity |-> "restaurant", shop |-> "wine"]>>,
           <<[amenity |-> "restaurant", shop |-> "convenience"]>>,
           <<[amenity |-> "pub", opening_hours |-> ""]>>,
           <<[amenity |-> "pub", opening_hours |-> "24/7"]>>,
           <<[amenity |-> "pub", opening_hours |-> "Mo-Fr 18:00-02:00"]>>}]

\* A response: the id of an element is its place in the response.
Response(shapes) ==
  [i \in DOMAIN shapes |->
     [type |-> shapes[i].type, id |-> i,
      lat |-> IF shapes[i].at = <<>> THEN <<>> ELSE <<shapes[i].at[1]>>,
      lon |-> IF shapes[i].at = <<>> THEN <<>> ELSE <<shapes[i].at[2]>>,
      center |-> shapes[i].center, tags |-> shapes[i].tags]]

\* The lists of at most MaxTypes categories without repetition, and the
\* list the application starts with (App.tsx line 28).
TypeLists ==
  {<<"bar", "wine-cellar", "nightclub", "supermarket", "restaurant",
     "liquor-store">>} \cup
  UNION {{l \in [1..n -> EstablishmentTypes] :
            \A i, j \in 1..n : i # j => l[i] # l[j]} : n \in 0..MaxTypes}

\* The city data of a city-mode call; coordinates in thousandths of a degree.
CityData ==
  [name : {<<>>, <<"Lyon">>, <<"Lyon", ":", "bar">>},
   boundingbox : {<<>>, << <<45707, 45808, 4771, 4898>> >>,
                  << <<45707, 45808>> >>}]

\* The arguments of a queryOverpass call (lines 548-555).  App.tsx passes
\* city data exactly in city mode (lines 130-156).
Requests ==
  {q \in [lat : {48846, 48854, 48856}, lng : {-5, 2352}, radius : {5, 10},
          types : TypeLists, searchMode : {"proximity", "city"},
          cityData : {<<>>} \cup {<<c>> : c \in CityData}] :
     (q.searchMode = "city") = (q.cityData # <<>>)}

\* Line 557: the cache key of a call, from cityData?.name.
KeyOf(q) ==
  getCacheKey(q.lat, q.lng, q.radius, q.types, q.searchMode,
              IF q.cityData = <<>> THEN <<>> ELSE <<q.cityData[1].name>>)

\* The second call of a pair whose keys are compared: from one place, for
\* bars, nightclubs, both in either order, or nothing.
SecondRequests ==
  {q \in Requests :
     /\ q.lat = 48854 /\ q.lng = 2352 /\ q.radius = 5
     /\ q.types \in {<<>>, <<"bar">>, <<"nightclub">>, <<"bar", "nightclub">>,
                     <<"nightclub", "bar">>}
     /\ q.cityData # <<>> => q.cityData[1].boundingbox = <<>>}

InitPure ==
  /\ GeoIdle
  /\ HeadingIdle
  /\ AppIdle
  /\ SearchIdle
  /\ WatchIdle
  /\ \/ \E n \in 0..MaxElements : \E shapes \in [1..n -> ElementShapes] :
          \/ probe = Probe("map", Response(shapes))
          \/ \E openOnly \in BOOLEAN :
               probe = Probe("filter", [elements |-> Response(shapes),
                                        openOnly |-> openOnly])
     \/ \E q \in Requests : probe = Probe("query", q)
     \/ \E q \in Requests : \E r \in SecondRequests :
          probe = Probe("key", <<q, r>>)

\* data.elements.map(...).filter(...) of queryOverpass.
ApplyMap ==
  /\ probe.fn = "map" /\ probe.out = <<>>
  /\ probe' = [probe EXCEPT !.out = <<Establishments(probe.in)>>]

\* The venues of a response as the application filters them.
ApplyFilter ==
  /\ probe.fn = "filter" /\ probe.out = <<>>
  /\ probe' = [probe EXCEPT !.out =
       <<filteredEstablishments(Establishments(probe.in.elements),
                                probe.in.openOnly)>>]

\* The query queryOverpass builds for a call.
ApplyQuery ==
  /\ probe.fn = "query" /\ probe.out = <<>>
  /\ probe' = [probe EXCEPT !.out =
       <<QueryFor(probe.in.lat, probe.in.lng, probe.in.radius,
                  probe.in.types, probe.in.searchMode, probe.in.cityData)>>]

\* The cache keys of two calls.
ApplyKey ==
  /\ probe.fn = "key" /\ probe.out = <<>>
  /\ probe' = [probe EXCEPT !.out =
       << <<KeyOf(probe.in[1]), KeyOf(probe.in[2])>> >>]

NextPure ==
  \/ ApplyMap /\ UNCHANGED <<vars, hvars, avars, svars, lvars>>
  \/ ApplyFilter /\ UNCHANGED <<vars, hvars, avars, svars, lvars>>
  \/ ApplyQuery /\ UNCHANGED <<vars, hvars, avars, svars, lvars>>
  \/ ApplyKey /\ UNCHANGED <<vars, hvars, avars, svars, lvars>>

SpecPure == InitPure /\ [][NextPure]_<<vars, hvars, pvars>>

\* ------------------------------------------- the city search specification
InitSearch ==
  /\ GeoIdle
  /\ HeadingIdle
  /\ ProbeIdle
  /\ AppIdle
  /\ WatchIdle
  /\ SearchInit([calls |-> MaxSearches, failures |-> MaxSearchFailures])

NextSearch ==
  \/ (\E query \in Queries : \E limit \in Limits : searchCities(query, limit))
       /\ UNCHANGED <<vars, hvars, pvars, avars, lvars>>
  \/ (\E s \in 1..Len(searches) : ThrottleWake(s))
       /\ UNCHANGED <<vars, hvars, pvars, avars, lvars>>
  \/ (\E s \in 1..Len(searches) :
        \E status \in {"ok", "empty", "http", "exception"} :
          SearchResponse(s, status))
       /\ UNCHANGED <<vars, hvars, pvars, avars, lvars>>
  \/ (\E t \in searchTimers : SearchCacheTimerFires(t))
       /\ UNCHANGED <<vars, hvars, pvars, avars, lvars>>
  \/ Advance /\ UNCHANGED <<hvars, pvars, avars, svars, lvars>>

SpecSearch == InitSearch /\ [][NextSearch]_<<vars, svars>>

\* ------------------------------------------- the geolocation specification
InitWatch ==
  /\ GeoIdle
  /\ HeadingIdle
  /\ ProbeIdle
  /\ AppIdle
  /\ SearchIdle
  /\ \E supported \in BOOLEAN :
       WatchInit([starts |-> MaxStarts, stops |-> MaxStops,
                  errors |-> MaxWatchErrors, fixes |-> MaxFixes,
                  supported |-> supported])

Fixes == {"fine", "coarse"}

NextWatch ==
  \/ start /\ UNCHANGED <<vars, hvars, pvars, avars, svars>>
  \/ (\E i \in 1..Len(starting) : \E fix \in Fixes \cup {"none"} :
        InitialFix(i, fix))
       /\ UNCHANGED <<vars, hvars, pvars, avars, svars>>
  \/ (\E w \in watching : \E fix \in Fixes : WatchFix(w, fix))
       /\ UNCHANGED <<vars, hvars, pvars, avars, svars>>
  \/ (\E w \in watching : \E code \in {1, 2, 3} : WatchError(w, code))
       /\ UNCHANGED <<vars, hvars, pvars, avars, svars>>
  \/ (\E i \in 1..Len(oneShots) : \E fix \in Fixes \cup {"none"} :
        OneShotAnswer(i, fix))
       /\ UNCHANGED <<vars, hvars, pvars, avars, svars>>
  \/ (\E t \in restartTimers : RestartTimerFires(t))
       /\ UNCHANGED <<vars, hvars, pvars, avars, svars>>
  \/ stop /\ UNCHANGED <<vars, hvars, pvars, avars, svars>>
  \/ Advance /\ UNCHANGED <<hvars, pvars, avars, svars, lvars>>

SpecWatch == InitWatch /\ [][NextWatch]_<<vars, lvars>>

\* ------------------------------------------------- one call, its arguments
\* The arguments of a call, as the caller finds them once queryOverpass has
\* run to its first await: types.sort() of line 478 sorts the caller's
\* array in place; the numbers and the mode are passed by value and
\* cityData is only read (lines 557, 575-577, 401-409).
ArgumentsAfterCopy(q) == q

ArgumentsAfter(q) == [q EXCEPT !.types = sort(q.types)]

\* A caller calls queryOverpass with arguments of its choice.
InitCall ==
  /\ InitState(DefaultEnv, [calls |-> MaxCallsRetry,
                            failures |-> MaxFailuresCall,
                            jitter |-> 0, keys |-> 1])
  /\ HeadingIdle
  /\ AppIdle
  /\ SearchIdle
  /\ WatchIdle
  /\ \E q \in Requests :
       /\ q.lat = 48854 /\ q.lng = 2352 /\ q.radius = 5
       /\ q.cityData # <<>> =>
            q.cityData[1] = [name |-> <<"Lyon">>, boundingbox |-> <<>>]
       /\ probe = Probe("call", q)

\* Lines 548-633: the call with the arguments drawn.
Call ==
  /\ probe.fn = "call" /\ probe.out = <<>>
  /\ probe' = [probe EXCEPT !.out = <<ArgumentsAfter(probe.in)>>]
  /\ queryOverpass(1)

NextCall ==
  \/ Call /\ UNCHANGED <<hvars, avars, svars, lvars>>
  \/ (\E t \in 1..Len(tickets) : LimiterStart(t))
       /\ UNCHANGED <<hvars, pvars, avars, svars, lvars>>
  \/ (\E t \in 1..Len(tickets) : LimiterWakeInterval(t))
       /\ UNCHANGED <<hvars, pvars, avars, svars, lvars>>
  \/ (\E t \in 1..Len(tickets) : LimiterWakeWindow(t))
       /\ UNCHANGED <<hvars, pvars, avars, svars, lvars>>
  \/ (\E r \in DOMAIN runs : \E st \in Statuses : FetchResponse(r, st))
       /\ UNCHANGED <<hvars, pvars, avars, svars, lvars>>
  \/ (\E r \in DOMAIN runs : BackoffWake429(r))
       /\ UNCHANGED <<hvars, pvars, avars, svars, lvars>>
  \/ (\E r \in DOMAIN runs : BackoffWakeNet(r))
       /\ UNCHANGED <<hvars, pvars, avars, svars, lvars>>
  \/ Advance /\ UNCHANGED <<hvars, pvars, avars, svars, lvars>>

SpecCall == InitCall /\ [][NextCall]_<<vars, pvars>>

\* ------------------------------------------ the application specification
\* The application and the query engine it calls.
InitApp ==
  /\ InitState(DefaultEnv, [calls |-> MaxCallsApp, failures |-> MaxFailuresApp,
                            jitter |-> 0, keys |-> 0])
  /\ HeadingIdle
  /\ ProbeIdle
  /\ AppInit([changes |-> MaxChanges])
  /\ SearchIdle
  /\ WatchIdle

\* The answers the network gives a run: before its last MaxVariedAttempts
\* attempts a failure is an HTTP error.
StatusesApp(r) ==
  IF runs[r].attempt < maxTries - MaxVariedAttempts THEN {"ok", "http"}
  ELSE Statuses

NextApp ==
  \/ (\E place \in Places : setUserLocation(place))
       /\ UNCHANGED <<vars, hvars, pvars, svars, lvars>>
  \/ (\E newFilters \in FilterChoices : setFilters(newFilters))
       /\ UNCHANGED <<vars, hvars, pvars, svars, lvars>>
  \/ LoadEffect /\ UNCHANGED <<vars, hvars, pvars, svars, lvars>>
  \/ (\E t \in timeouts : TimeoutFires(t)) /\ UNCHANGED <<hvars, pvars, svars, lvars>>
  \/ (\E l \in 1..Len(loads) : \E found \in BOOLEAN : CityDetails(l, found))
       /\ UNCHANGED <<hvars, pvars, svars, lvars>>
  \/ (\E l \in 1..Len(loads) : LoadSettles(l)) /\ UNCHANGED <<hvars, pvars, svars, lvars>>
  \/ (\E t \in 1..Len(tickets) : LimiterStart(t))
       /\ UNCHANGED <<hvars, pvars, avars, svars, lvars>>
  \/ (\E t \in 1..Len(tickets) : LimiterWakeInterval(t))
       /\ UNCHANGED <<hvars, pvars, avars, svars, lvars>>
  \/ (\E t \in 1..Len(tickets) : LimiterWakeWindow(t))
       /\ UNCHANGED <<hvars, pvars, avars, svars, lvars>>
  \/ (\E r \in DOMAIN runs : \E status \in StatusesApp(r) :
        FetchResponse(r, status))
       /\ UNCHANGED <<hvars, pvars, avars, svars, lvars>>
  \/ (\E r \in DOMAIN runs : BackoffWake429(r))
       /\ UNCHANGED <<hvars, pvars, avars, svars, lvars>>
  \/ (\E r \in DOMAIN runs : BackoffWakeNet(r))
       /\ UNCHANGED <<hvars, pvars, avars, svars, lvars>>
  \/ Advance /\ UNCHANGED <<hvars, pvars, avars, svars, lvars>>

SpecApp == InitApp /\ [][NextApp]_<<vars, avars>>

\* =================================================================== claims
Unsettled(r) == r \in DOMAIN runs /\ runs[r].pc # "settled"
CallStep == Len(calls') = Len(calls) + 1
NewCall == calls'[Len(calls')]

\* C1: a call made while an operation with the same cache key is pending
\* subscribes to that operation and starts nothing of its own: no run, no
\* slot request, no physical request.
C1_Dedup ==
  [][CallStep =>
       \A r \in DOMAIN runs :
         (runs[r].pc # "settled" /\ runs[r].key = NewCall.key) =>
           /\ NewCall.how = "subscribed"
           /\ NewCall.op = r
           /\ DOMAIN runs' = DOMAIN runs
           /\ tickets' = tickets
           /\ requests' = requests]_vars

\* Two or more callers share one pending operation.
C1_Witness ==
  \E c \in 1..Len(calls) :
    /\ calls[c].how = "subscribed"
    /\ Unsettled(calls[c].op)
    /\ Cardinality({r \in DOMAIN runs : runs[r].key = calls[c].key}) = 1


GrantsInWindowEndingAt(t) ==
  Cardinality({i \in 1..Len(requests) :
                 t - WINDOW_MS < requests[i].time /\ requests[i].time <= t})

\* C2: whatever the configuration (MAX_REQS_PER_WINDOW >= 1), no window of
\* length WINDOW_MS, taken as the half-open interval (t - WINDOW_MS, t],
\* contains more than MAX_REQS_PER_WINDOW granted slots.
C2_WindowLimit ==
  MAX_REQS_PER_WINDOW >= 1 =>
    \A i \in 1..Len(requests) :
      GrantsInWindowEndingAt(requests[i].time) <= MAX_REQS_PER_WINDOW

\* C3: two consecutively granted slots are at least MIN_INTERVAL_MS apart.
C3_MinInterval ==
  \A i \in 1..(Len(requests) - 1) :
    requests[i + 1].time - requests[i].time >= MIN_INTERVAL_MS

\* Two slots granted exactly MIN_INTERVAL_MS apart to two different queries.
C3_Witness ==
  /\ MIN_INTERVAL_MS > 0
  /\ Len(requests) >= 2
  /\ requests[2].time - requests[1].time = MIN_INTERVAL_MS
  /\ requests[2].run # requests[1].run

Sleeping == {t \in 1..Len(tickets) :
               tickets[t].state \in {"sleepInterval", "sleepWindow"}}

\* C4: at most one waitForRateLimit body is running or sleeping, no body
\* starts before every earlier slot request has been granted, and the slots
\* are granted in the order of the enqueueRateLimitedSlot calls.
C4_SerializedFifo ==
  /\ Cardinality(Sleeping) <= 1
  /\ \A t1, t2 \in 1..Len(tickets) :
       (t1 < t2 /\ tickets[t2].state # "queued") => tickets[t1].state = "granted"
  /\ \A i \in 1..(Len(requests) - 1) : requests[i].ticket < requests[i + 1].ticket

\* A slot request queued behind a sleeping one, made by another query.
C4_Witness ==
  \E t1, t2 \in 1..Len(tickets) :
    /\ t1 < t2
    /\ t1 \in Sleeping
    /\ tickets[t2].state = "queued"
    /\ tickets[t1].run # tickets[t2].run

SettledOk(r) == r \in DOMAIN runs /\ runs[r].pc = "settled" /\ runs[r].result[1] = "ok"
SettledError(r) ==
  r \in DOMAIN runs /\ runs[r].pc = "settled" /\ runs[r].result[1] = "error"
StartedNothing(c) ==
  /\ c \notin DOMAIN runs
  /\ \A t \in 1..Len(tickets) : tickets[t].run # c
  /\ \A i \in 1..Len(requests) : requests[i].run # c

\* C5: a call made after an operation with the same key has succeeded, less
\* than CACHE_DURATION after it wrote its entry, returns that operation's
\* list, sends no request and asks for no slot.
C5_CacheHit ==
  \A c \in 1..Len(calls) : \A r \in DOMAIN runs :
    ( /\ SettledOk(r)
      /\ runs[r].key = calls[c].key
      /\ runs[r].settledCalls < c
      /\ calls[c].time - runs[r].settledTime < CACHE_DURATION )
    => /\ calls[c].how = "hit"
       /\ calls[c].outcome = runs[r].result
       /\ StartedNothing(c)

\* A hit one millisecond before the entry expires.
C5_Witness ==
  \E c \in 1..Len(calls) : \E r \in DOMAIN runs :
    /\ SettledOk(r)
    /\ runs[r].key = calls[c].key
    /\ runs[r].settledCalls < c
    /\ calls[c].time - runs[r].settledTime = CACHE_DURATION - 1
    /\ calls[c].how = "hit"

Expired(entry) == now - entry.timestamp >= CACHE_DURATION
Inserted(k) ==
  k \in DOMAIN cache' /\ (k \in DOMAIN cache => cache'[k] # cache[k])

\* C6: an entry whose age has reached CACHE_DURATION is never returned, and
\* when an entry is inserted under a key no expired entry is stored under
\* that key any more.
C6_ExpiredPurged ==
  [][ /\ (CallStep /\ NewCall.how = "hit") => ~Expired(cache[NewCall.key])
      /\ \A k \in DOMAIN cache' :
           Inserted(k) => ~(k \in DOMAIN cache /\ Expired(cache[k])) ]_vars

\* C7: after a 429 from endpoint i, the next attempt of the same run goes to
\* endpoint (i + 1) mod N, no sooner than BACKOFF_BASE_MS after the 429.
C7_NextEndpointAfter429 ==
  \A i, j \in 1..Len(requests) :
    ( /\ requests[i].run = requests[j].run
      /\ requests[j].attempt = requests[i].attempt + 1
      /\ requests[i].status = "429" )
    => /\ requests[j].endpoint = NextInstance(requests[i].endpoint)
       /\ requests[j].time >= requests[i].answered + BACKOFF_BASE_MS

RequestsOf(r) == {i \in 1..Len(requests) : requests[i].run = r}

\* C8 (safety part): a run makes at most 2 x NumInstances requests; a run
\* that rejects has made them all, none with an ok answer kept, and rejects
\* with the error of its last attempt; the originator and every subscriber
\* get that same error.
C8_Bounded ==
  \A r \in DOMAIN runs :
    /\ Cardinality(RequestsOf(r)) <= 2 * NumInstances
    /\ SettledError(r) =>
         LET last == requests[runs[r].req] IN
         /\ last.attempt = 2 * NumInstances - 1
         /\ last.status \in {"429", "http", "exception"}
         /\ runs[r].result[2] = MkError(last.status, last.attempt)
         /\ \A c \in 1..Len(calls) :
              calls[c].op = r => calls[c].outcome = runs[r].result

\* C8: the safety part always holds and every run that was started
\* eventually settles, given that fetches and timers complete.
C8_BoundedAndTerminates ==
  /\ []C8_Bounded
  /\ \A r \in 1..MaxCallsOne : (r \in DOMAIN runs) ~> (~Unsettled(r))

\* A run has exhausted its attempts and a subscriber got its error.
C8_Witness ==
  \E r \in DOMAIN runs : \E c \in 1..Len(calls) :
    /\ SettledError(r)
    /\ Cardinality(RequestsOf(r)) = 2 * NumInstances
    /\ calls[c].how = "subscribed"
    /\ calls[c].op = r
    /\ calls[c].outcome = runs[r].result

\* C9: every physical request follows the grant of one slot to its attempt
\* and goes to the endpoint the cursor designates when the request is sent.
C9_EndpointAtCursor ==
  \A i \in 1..Len(requests) :
    /\ tickets[requests[i].ticket].state = "granted"
    /\ tickets[requests[i].ticket].run = requests[i].run
    /\ tickets[requests[i].ticket].attempt = requests[i].attempt
    /\ \A j \in 1..Len(requests) :
         requests[j].ticket = requests[i].ticket => j = i
    /\ requests[i].endpoint = OVERPASS_INSTANCES[requests[i].cursor]

\* C10: the in-flight map only holds operations that have not settled, and
\* no call has subscribed to an operation that had already settled.
C10_RecordRemoved ==
  /\ \A k \in DOMAIN inFlightRequests :
       Unsettled(inFlightRequests[k]) /\ runs[inFlightRequests[k]].key = k
  /\ \A c \in 1..Len(calls) :
       calls[c].how = "subscribed" =>
         (Unsettled(calls[c].op) \/ runs[calls[c].op].settledCalls >= c)

\* After an operation failed, a later call with its key starts a new one.
C10_Witness ==
  \E r \in DOMAIN runs : \E c \in 1..Len(calls) :
    /\ SettledError(r)
    /\ runs[r].settledCalls < c
    /\ calls[c].key = runs[r].key
    /\ calls[c].how = "originator"

\* C11: all callers sharing one pending operation, the originator and every
\* subscriber, receive the same outcome: none of them has one while the
\* operation is pending, and once it has settled each of them holds the
\* operation's result, the same list or the same error.
C11_SameOutcome ==
  \A c \in 1..Len(calls) :
    calls[c].how \in {"originator", "subscribed"} =>
      /\ calls[c].op \in DOMAIN runs
      /\ IF Unsettled(calls[c].op)
         THEN calls[c].outcome = None
         ELSE calls[c].outcome = runs[calls[c].op].result

\* An operation resolved with a list and a subscriber holds that same list.
C11_Witness ==
  \E r \in DOMAIN runs : \E c, d \in 1..Len(calls) :
    /\ SettledOk(r)
    /\ calls[c].how = "originator" /\ calls[c].op = r
    /\ calls[d].how = "subscribed" /\ calls[d].op = r
    /\ calls[d].outcome = calls[c].outcome
    /\ calls[c].outcome[1] = "ok"

\* ------------------------------------------------- heading estimator claims
\* A ref holds null or a sensor of the last run of the effect, while that
\* run is mounted.
RefsAreOwn ==
  \A ref \in {absSensorRef, accelRef, magRef} :
    ref # 0 => ref = Len(effects) /\ effects[ref].mounted

LastEffect == Len(effects)
SensorOn(e, sensor) == effects[e][sensor] = "on"
\* A runtime error of the given sensor of effect e is handled in this step.
ErrorStep(e, sensor) ==
  /\ hbound'.errors < hbound.errors
  /\ effects[e][sensor] = "on"
  /\ effects'[e][sensor] = "off"
DeviceOrientationStarted(e) ==
  /\ effects'[e].listeners = effects[e].listeners + 1
  /\ providerRef' = "deviceorientation"
MagnetometerStarted(e) ==
  /\ effects'[e].accel = "on" /\ effects'[e].mag = "on"
  /\ providerRef' = "magnetometer"

\* C12: whenever the active provider raises a runtime error, the estimator
\* stops that provider and starts the next one in priority order (after the
\* absolute-orientation sensor the magnetometer pair, or the orientation
\* events when the pair cannot be started; after the accelerometer or the
\* magnetometer the orientation events), and sets no error state.
C12_RuntimeFallback ==
  [][\A e \in 1..Len(effects) :
       /\ ErrorStep(e, "abs") =>
            /\ IF platform.mag = "ok" THEN MagnetometerStarted(e)
               ELSE DeviceOrientationStarted(e)
            /\ orientation'.error = orientation.error
       /\ (ErrorStep(e, "accel") \/ ErrorStep(e, "mag")) =>
            /\ effects'[e].accel = "off" /\ effects'[e].mag = "off"
            /\ DeviceOrientationStarted(e)
            /\ orientation'.error = orientation.error]_hvars

NoProvider == /\ platform.abs = "absent"
              /\ platform.mag \in {"absent", "noAccel"}
              /\ ~platform.devori
\* The mounted effect has no provider left to try: it started none, or its
\* cascade ended on orientation events the platform does not have.
Exhausted ==
  /\ LastEffect > 0
  /\ effects[LastEffect].mounted
  /\ \/ effects[LastEffect].cleanup = "null"
     \/ effects[LastEffect].cleanup = "devori" /\ ~platform.devori

\* C13: the no-sensor error state (error set, no heading) is surfaced only
\* when the platform has no provider to offer, and it is surfaced whenever
\* the providers are exhausted, the end of a cascade of fallbacks on
\* orientation events that the platform lacks included.
C13_ErrorIffExhausted ==
  /\ orientation.error = "noSensor" => NoProvider /\ orientation.heading = <<>>
  /\ Exhausted => orientation.error = "noSensor" /\ orientation.heading = <<>>

EmittingProviders ==
  {<<e, "abs">> : e \in {x \in 1..Len(effects) : SensorOn(x, "abs")}}
  \cup {<<e, "mag">> : e \in {x \in 1..Len(effects) :
                               SensorOn(x, "accel") \/ SensorOn(x, "mag")}}
  \cup {<<e, "devori">> : e \in {x \in 1..Len(effects) :
                                  effects[x].listeners > 0}}

\* C14: at every moment at most one provider is started: one activated
\* absolute-orientation sensor, or one accelerometer and magnetometer pair,
\* or one orientation listener, counted over every run of the effect.
C14_OneProvider ==
  /\ Cardinality(EmittingProviders) <= 1
  /\ \A e \in 1..Len(effects) : effects[e].listeners <= 1

\* The second activation runs a sensor after the first one fell back twice.
C14_Witness ==
  /\ Len(effects) = 2
  /\ effects[1].abs = "off" /\ effects[1].mag = "off"
  /\ effects[1].cleanup = "devori"
  /\ EmittingProviders = {<<2, "abs">>}

\* C15: after stopTracking, until the next activation, the heading and the
\* smoothing memory are null, whatever sensor event is delivered before the
\* cleanup of the effect, and once the cleanup has run no sensor is
\* activated and no listener is attached.
C15_StoppedStaysNull ==
  ~isActive =>
    /\ orientation.heading = <<>>
    /\ lastHeadingRef = <<>>
    /\ ~effectPending => EmittingProviders = {}

FirstOfActivation(i) ==
  \A j \in 1..(i - 1) : emits[j].effect # emits[i].effect

\* C16: of the headings emitted while tracking is active, the first one of
\* each activation is the raw heading, and every later one is the previous
\* emitted heading moved by a fifth of the shortest difference to the raw
\* heading.
C16_FirstIsRaw ==
  \A i \in 1..Len(emits) :
    emits[i].active =>
      IF FirstOfActivation(i) THEN emits[i].out = emits[i].raw
      ELSE emits[i].out = Smoothed(<<emits[i - 1].out>>, emits[i].raw)

InRange(x) == ~x.nan /\ 0 <= x.v /\ x.v < Turn

\* C17: every heading emitted, the heading of the state and the smoothing
\* memory lie in [0, 360).
C17_HeadingInRange ==
  /\ \A i \in 1..Len(emits) : InRange(emits[i].out)
  /\ lastHeadingRef # <<>> => InRange(lastHeadingRef[1])
  /\ orientation.heading # <<>> => InRange(orientation.heading[1])

Dist(a, b) == Min((a - b) % Turn, (b - a) % Turn)

\* C18: when a heading in [0, 360) is smoothed against a previous one in
\* [0, 360), with delta = ((new - prev + 540) mod 360) - 180, delta lies in
\* [-180, 180), the result is prev + delta / 5 modulo 360 and lies on the
\* shorter arc from prev to new; prev = 350 and new = 10 give 354.
C18_ShortestArc ==
  \A i \in 1..Len(emits) :
    (/\ emits[i].prev # <<>>
     /\ InRange(emits[i].prev[1])
     /\ InRange(emits[i].raw)) =>
      LET prev == emits[i].prev[1].v
          new == emits[i].raw.v
          out == emits[i].out
          delta == ((new - prev + 540 * Scale) % Turn) - 180 * Scale
      IN /\ (0 - 180) * Scale <= delta /\ delta < 180 * Scale
         /\ InRange(out)
         /\ (5 * out.v) % (5 * Turn) = (5 * prev + delta) % (5 * Turn)
         /\ Dist(prev, out.v) + Dist(out.v, new) = Dist(prev, new)
         /\ (prev = 350 * Scale /\ new = 10 * Scale) => out.v = 354 * Scale

\* 350 was emitted and 10 is smoothed against it across north.
C18_Witness ==
  \E i \in 1..Len(emits) :
    /\ emits[i].prev = <<Deg(350)>>
    /\ emits[i].raw = Deg(10)
    /\ emits[i].out = Deg(354)

\* C19: in the orientation-event provider the screen angle is added to the
\* heading computed from the Euler angles or from alpha alone, and is not
\* added to the vendor-supplied webkitCompassHeading.
C19_VendorNotCorrected ==
  \A i \in 1..Len(emits) :
    emits[i].info.provider = "deviceorientation" =>
      emits[i].raw =
        IF emits[i].info.path = "webkit"
        THEN normalizeAngle(emits[i].info.base)
        ELSE normalizeAngle(Plus(emits[i].info.base, getScreenAngle))

\* C20: a heading of the magnetometer provider is computed from an
\* accelerometer sample and a magnetometer sample that were both delivered
\* to the run of the effect that emits it, never from a sample left by an
\* earlier activation.
C20_BothSamplesFresh ==
  \A i \in 1..Len(emits) :
    emits[i].info.provider = "magnetometer" =>
      /\ emits[i].info.accelFrom = <<emits[i].effect>>
      /\ emits[i].info.magFrom = <<emits[i].effect>>

\* A requestPermission call is made, or the call i returns, in this step.
PermissionCalled == Len(permissionLog') = Len(permissionLog) + 1
PermissionReturned(i, value) ==
  /\ i <= Len(permissionLog)
  /\ permissionLog[i].result = <<>>
  /\ permissionLog'[i].result = <<value>>

EffectRuns == Len(effects') = Len(effects) + 1

\* C22: when tracking is activated on a platform that has none of the three
\* providers, the run of the effect reports isSupported = false with the
\* no-sensor error and starts no provider, and on such a platform no
\* provider is ever started and no heading is ever emitted.
C22_Unsupported ==
  /\ [](NoProvider =>
          /\ EmittingProviders = {}
          /\ emits = <<>>
          /\ orientation.heading = <<>>)
  /\ [][(EffectRuns /\ NoProvider) =>
          /\ orientation'.isSupported = FALSE
          /\ orientation'.error = "noSensor"
          /\ effects'[Len(effects')].cleanup = "null"
          /\ providerRef' = "null"]_hvars

\* Tracking is active on a platform without provider, and it says so.
C22_Witness ==
  /\ NoProvider
  /\ isActive /\ ~effectPending
  /\ Len(effects) > 0
  /\ orientation.error = "noSensor"
  /\ ~orientation.isSupported
  /\ orientation.heading = <<>>

\* C23: stopTracking sets alpha, beta, gamma and heading to null, clears
\* the smoothing memory and deactivates tracking, and leaves isSupported,
\* hasPermission, error and absolute as they are; applied to the state it
\* leaves, it changes nothing.
C23_StopTracking ==
  /\ [][stopTracking =>
          /\ orientation'.alpha = <<>> /\ orientation'.beta = <<>>
          /\ orientation'.gamma = <<>> /\ orientation'.heading = <<>>
          /\ lastHeadingRef' = <<>>
          /\ ~isActive'
          /\ orientation'.isSupported = orientation.isSupported
          /\ orientation'.hasPermission = orientation.hasPermission
          /\ orientation'.error = orientation.error
          /\ orientation'.absolute = orientation.absolute]_hvars
  /\ [](Cleared(Cleared(orientation)) = Cleared(orientation))
  /\ []((/\ ~isActive /\ lastHeadingRef = <<>>
         /\ orientation = Cleared(orientation)) =>
          (ENABLED stopTracking => ~ENABLED <<stopTracking>>_hvars))

\* Tracking was stopped after headings had been emitted.
C23_Witness ==
  /\ ~isActive /\ effectPending
  /\ Len(emits) > 0
  /\ orientation.heading = <<>> /\ orientation.alpha = <<>>
  /\ lastHeadingRef = <<>>
  /\ orientation.absolute
  /\ orientation.hasPermission = <<TRUE>>

\* C28: nothing cancels a fetch.  The step in which a run receives an ok
\* answer writes the list under the run's key, whoever awaits the run; the
\* entry is there, unchanged, for the CACHE_DURATION that follows, and every
\* call made with that key in that time is served from it.
C28_WriteCompletes ==
  /\ [][\A r \in DOMAIN runs :
          (Unsettled(r) /\ r \in DOMAIN runs' /\ SettledOk(r)') =>
            /\ runs[r].key \in DOMAIN cache'
            /\ cache'[runs[r].key] =
                 [data |-> runs'[r].result[2], timestamp |-> now]]_vars
  /\ [](\A r \in DOMAIN runs :
          (SettledOk(r) /\ now - runs[r].settledTime < CACHE_DURATION) =>
            /\ runs[r].key \in DOMAIN cache
            /\ cache[runs[r].key] = [data |-> runs[r].result[2],
                                     timestamp |-> runs[r].settledTime]
            /\ \A c \in (runs[r].settledCalls + 1)..Len(calls) :
                 calls[c].key = runs[r].key =>
                   /\ calls[c].how = "hit"
                   /\ calls[c].outcome = <<"ok", cache[runs[r].key].data>>)

\* A call is served from the entry a run wrote some time before.
C28_Witness ==
  \E r \in DOMAIN runs : \E c \in 1..Len(calls) :
    /\ SettledOk(r)
    /\ c > runs[r].settledCalls
    /\ calls[c].key = runs[r].key
    /\ calls[c].how = "hit"
    /\ calls[c].time > runs[r].settledTime
    /\ now - runs[r].settledTime < CACHE_DURATION
    /\ cache[runs[r].key].data = runs[r].result[2]


\* ---- the mapping of a response
Mapped == probe.fn = "map" /\ probe.out # <<>>
\* The venues made from the element with the given id.
VenuesOf(element) ==
  {j \in 1..Len(probe.out[1]) :
     probe.out[1][j].id = <<element.type, element.id>>}
HasCategory(element) ==
  element.tags # <<>> /\ mapOsmTagsToType(element.tags[1]) # <<>>

\* C24: every element of the response that maps to a category yields a
\* venue at the element's own position when it is a node that has one,
\* whatever the coordinate values; otherwise a venue at its centroid when it
\* has one; otherwise no venue.
C24_OwnPositionElseCentroid ==
  Mapped =>
    \A i \in 1..Len(probe.in) :
      LET element == probe.in[i] IN
      HasCategory(element) =>
        IF element.type = "node" /\ element.lat # <<>> /\ element.lon # <<>>
        THEN \E j \in VenuesOf(element) :
               /\ probe.out[1][j].lat = element.lat[1]
               /\ probe.out[1][j].lng = element.lon[1]
        ELSE IF element.center # <<>>
        THEN \E j \in VenuesOf(element) :
               /\ probe.out[1][j].lat = element.center[1].lat
               /\ probe.out[1][j].lng = element.center[1].lon
        ELSE VenuesOf(element) = {}

\* The closed table of categories, first matching row.
CategoryOf(tags) ==
  LET amenity == IF "amenity" \in DOMAIN tags THEN tags.amenity ELSE ""
      shop == IF "shop" \in DOMAIN tags THEN tags.shop ELSE "" IN
  CASE amenity \in {"bar", "pub"} -> "bar"
    [] amenity = "nightclub" -> "nightclub"
    [] shop = "wine" -> "wine-cellar"
    [] shop \in {"alcohol", "beverages"} -> "liquor-store"
    [] amenity = "restaurant" -> "restaurant"
    [] shop \in {"supermarket", "convenience"} -> "supermarket"
    [] OTHER -> "none"

\* C25: the category of every venue is one of the six and is the first
\* matching row of the table for the attributes of its element; an element
\* without attributes or without a matching attribute yields no venue, every
\* other element that has coordinates yields one, and the venues come in the
\* order of their elements in the response.
C25_ClosedTable ==
  Mapped =>
    /\ \A j \in 1..Len(probe.out[1]) :
         LET venue == probe.out[1][j] IN
         /\ venue.type \in EstablishmentTypes
         /\ \E i \in 1..Len(probe.in) :
              /\ venue.id = <<probe.in[i].type, probe.in[i].id>>
              /\ probe.in[i].tags # <<>>
              /\ venue.type = CategoryOf(probe.in[i].tags[1])
    /\ \A i \in 1..Len(probe.in) :
         LET element == probe.in[i] IN
         IF element.tags = <<>> THEN VenuesOf(element) = {}
         ELSE IF CategoryOf(element.tags[1]) = "none"
         THEN VenuesOf(element) = {}
         ELSE Coordinates(element) # <<>> =>
                Cardinality(VenuesOf(element)) = 1
    /\ \A j, k \in 1..Len(probe.out[1]) :
         j < k => probe.out[1][j].id[2] < probe.out[1][k].id[2]

\* A response in which a wine shop that is also a restaurant follows an
\* element without a matching attribute: only the shop yields a venue.
C25_Witness ==
  /\ Mapped
  /\ Len(probe.in) = 2 /\ Len(probe.out[1]) = 1
  /\ probe.in[1].tags # <<>>
  /\ probe.in[2].tags # <<>>
  /\ DOMAIN probe.in[1].tags[1] = {"amenity"}
  /\ probe.in[1].tags[1].amenity = "cafe"
  /\ DOMAIN probe.in[2].tags[1] = {"amenity", "shop"}
  /\ probe.out[1][1].type = "wine-cellar"

\* ---- the generated query
Queried == probe.fn = "query" /\ probe.out # <<>>
\* The tag predicates of a category.
Predicates(t) ==
  CASE t = "bar" -> {<<"amenity", "bar">>, <<"amenity", "pub">>}
    [] t = "nightclub" -> {<<"amenity", "nightclub">>}
    [] t = "wine-cellar" -> {<<"shop", "wine">>}
    [] t = "liquor-store" -> {<<"shop", "alcohol">>, <<"shop", "beverages">>}
    [] t = "restaurant" -> {<<"amenity", "restaurant">>}
    [] t = "supermarket" ->
         {<<"shop", "supermarket">>, <<"shop", "convenience">>}
Requested(q) == {q.types[i] : i \in 1..Len(q.types)}
ClausesFor(kind, predicate) ==
  {j \in 1..Len(probe.out[1]) :
     /\ probe.out[1][j].kind = kind
     /\ probe.out[1][j].key = predicate[1]
     /\ probe.out[1][j].value = predicate[2]}
\* The scope the claim gives the clauses of a call.
ScopeOf(q) ==
  IF q.searchMode = "proximity"
  THEN [shape |-> "around", of |-> <<q.radius * 1000, q.lat, q.lng>>]
  ELSE LET box == q.cityData[1].boundingbox IN
       IF box # <<>> /\ Len(box[1]) = 4
       THEN [shape |-> "bbox",
             of |-> <<box[1][1], box[1][3], box[1][2], box[1][4]>>]
       ELSE [shape |-> "around", of |-> <<20000, q.lat, q.lng>>]

\* C26: the query has, for each requested category and each of its tag
\* predicates, exactly one node clause and one way clause, and no clause
\* for a category that is not requested (none at all for the empty list);
\* every clause is scoped by around:(radius x 1000) at the origin in
\* proximity mode, and in city mode by the bounding rectangle when one with
\* 4 components is supplied, else by around:20000 at the city centroid.
C26_ClausesAndScope ==
  Queried =>
    /\ \A t \in EstablishmentTypes : \A predicate \in Predicates(t) :
         \A kind \in {"node", "way"} :
           Cardinality(ClausesFor(kind, predicate)) =
             IF t \in Requested(probe.in) THEN 1 ELSE 0
    /\ \A j \in 1..Len(probe.out[1]) :
         /\ probe.out[1][j].kind \in {"node", "way"}
         /\ \E t \in Requested(probe.in) :
              <<probe.out[1][j].key, probe.out[1][j].value>> \in Predicates(t)
         /\ probe.out[1][j].area = ScopeOf(probe.in)
    /\ probe.in.types = <<>> => probe.out[1] = <<>>

\* A city-mode call for bars and wine cellars with a bounding rectangle of
\* 4 components: six clauses.
C26_Witness ==
  /\ Queried
  /\ probe.in.searchMode = "city"
  /\ probe.in.cityData[1].boundingbox # <<>>
  /\ Len(probe.in.cityData[1].boundingbox[1]) = 4
  /\ Requested(probe.in) = {"bar", "wine-cellar"}
  /\ Len(probe.out[1]) = 6

\* ---- the cache key
Keyed == probe.fn = "key" /\ probe.out # <<>>
\* A call in city mode with a city name.
CityKeyed(q) ==
  q.searchMode = "city" /\ q.cityData # <<>> /\ q.cityData[1].name # <<>>
\* A coordinate in thousandths of a degree, rounded to hundredths.
TwoDecimals(x) ==
  CHOOSE h \in ((x \div 10) - 1)..((x \div 10) + 1) :
    10 * h - 5 <= x /\ x < 10 * h + 5
SameComponents(q, r) ==
  /\ CityKeyed(q) = CityKeyed(r)
  /\ Requested(q) = Requested(r)
  /\ IF CityKeyed(q) THEN q.cityData[1].name = r.cityData[1].name
     ELSE /\ TwoDecimals(q.lat) = TwoDecimals(r.lat)
          /\ TwoDecimals(q.lng) = TwoDecimals(r.lng)
          /\ q.radius = r.radius

Settling(l) ==
  /\ l \in 1..Len(loads)
  /\ loads[l].pc = "query"
  /\ loads'[l].pc = "done"
OutcomeOf(l) == calls[loads[l].call].outcome
Shown(l) == {toasts'[i].kind : i \in {j \in (Len(toasts) + 1)..Len(toasts') :
                                        toasts'[j].load = l}}

\* C29: when a venue load fails the user is shown the too-many-requests
\* message if the failure is a 429 answer and the please-retry message for
\* any other failure, the venue list becomes empty and the loading flag is
\* cleared; when the load succeeds with zero venues the user is shown the
\* widen-radius information and no error.
C29_FailureMessages ==
  [][\A l \in 1..Len(loads) :
       Settling(l) =>
         IF OutcomeOf(l)[1] = "error"
         THEN /\ Shown(l) = {IF OutcomeOf(l)[2].kind = "429"
                             THEN "tooManyRequests" ELSE "pleaseRetry"}
              /\ establishments' = NoVenues
              /\ isLoading' = FALSE
         ELSE establishments'.n = 0 => Shown(l) = {"widenRadius"}]_<<vars, avars>>

\* The effect runs for a change; a load starts.
EffectRan == appEffectPending /\ ~appEffectPending'
LoadStarted == Len(loads') = Len(loads) + 1

\* C30: each change of the user location or of the filters cancels the
\* pending scheduled load and schedules a new one 1000 ms later; at most
\* one scheduled load is pending at any time; a load starts only after
\* 1000 ms without a change; and after the last change a load for the
\* latest parameters is started: it is scheduled until it has started.
C30_Debounce ==
  /\ [](Cardinality(timeouts) <= 1)
  /\ [][EffectRan =>
          \E t \in timeouts' :
            /\ timeouts' = {t}
            /\ t.due = now + 1000
            /\ t.params = params]_<<vars, avars>>
  /\ [][LoadStarted => now - lastChange >= 1000]_<<vars, avars>>
  /\ [](~appEffectPending /\ params.userLocation # 0 =>
          \/ \E t \in timeouts : t.params = params
          \/ \E l \in 1..Len(loads) :
               loads[l].params = params /\ loads[l].timeout = effectTimeout)

\* ------------------------------------------------------------------ C31
\* The venues a filtered response holds.
Filtered == probe.fn = "filter" /\ probe.out # <<>>

\* The schedule attribute of a venue: absent, '24/7' or another value.
ScheduleOf(est) ==
  IF "opening_hours" \notin DOMAIN est.tags THEN "absent"
  ELSE IF est.tags.opening_hours = "24/7" THEN "24/7" ELSE "other"

\* C31: every venue the response mapping produces has isOpen = true,
\* whatever its schedule attribute (absent, '24/7' or any other value), and
\* the open-only filter of the application excludes no venue: the filtered
\* list is the mapped list, with the filter on or off.
C31_AlwaysOpen ==
  /\ Mapped => \A i \in 1..Len(probe.out[1]) : probe.out[1][i].isOpen
  /\ Filtered =>
       /\ probe.out[1] = Establishments(probe.in.elements)
       /\ \A i \in 1..Len(probe.out[1]) : probe.out[1][i].isOpen

\* The open-only filter was applied to venues with each kind of schedule:
\* none, '24/7' and another value.
C31_Witness ==
  /\ Filtered /\ probe.in.openOnly
  /\ Len(probe.out[1]) = 2
  /\ {ScheduleOf(probe.out[1][i]) : i \in 1..2} \in
       {{"absent", "other"}, {"24/7", "other"}}

\* ------------------------------------------------------------------ C32
\* The request i gets an answer with a status of S in this step.
Answered(i, S) ==
  requests[i].status = "pending" /\ requests'[i].status \in S
\* The run r ends the sleep of its 429 backoff in this step.
Woke429(r) == runs[r].pc = "backoff429" /\ runs'[r].pc # "backoff429"

\* The cursor moves by one position exactly when an attempt has failed: at
\* the answer for a non-ok status or an exception, after the backoff for a
\* 429; no other step moves it.
CursorSteps ==
  IF \/ \E i \in 1..Len(requests) : Answered(i, {"http", "exception"})
     \/ \E r \in DOMAIN runs : Woke429(r)
  THEN currentInstanceIndex' = (currentInstanceIndex + 1) % NumInstances
  ELSE currentInstanceIndex' = currentInstanceIndex

\* After a successful attempt the cursor designates the endpoint that
\* succeeded.
CursorAtSuccess ==
  \A i \in 1..Len(requests) :
    Answered(i, {"ok"}) =>
      OVERPASS_INSTANCES[currentInstanceIndex'] = requests[i].endpoint

\* C32: the cursor is always an index of the endpoint list; every failed
\* attempt (429, other non-ok status, exception) advances it by exactly one
\* position modulo the number of endpoints and a successful attempt leaves
\* it unchanged, so that after a success the cursor designates the endpoint
\* that succeeded and the next query starts on it.
C32_Cursor ==
  /\ [](currentInstanceIndex \in 0..(NumInstances - 1))
  /\ [][CursorSteps]_vars
  /\ [][CursorAtSuccess]_vars

\* ------------------------------------------------------------------ C33
\* The run r ends the sleep of its exception backoff in this step.
WokeNet(r) == runs[r].pc = "backoffNet" /\ runs'[r].pc # "backoffNet"

\* C33: after the failed attempt number k of a run (0-based), the run sleeps
\* BACKOFF_BASE_MS x 2^min(k,4) plus a jitter in [0,250) ms when the answer
\* was a 429, never more than 16 x BACKOFF_BASE_MS + 249; it sleeps
\* BACKOFF_BASE_MS plus a jitter in [0,200) ms after an exception; after
\* another non-ok status it does not sleep a backoff: it asks for its next
\* slot at once, or settles when that was its last attempt.  A sleep is not
\* cut short.
C33_BackoffDelays ==
  [][ /\ \A i \in 1..Len(requests) :
           LET r == requests[i].run
               k == requests[i].attempt
               slept == runs'[r].wake - now
           IN /\ Answered(i, {"429"}) =>
                   /\ runs'[r].pc = "backoff429"
                   /\ \E j \in 0..249 :
                        slept = BACKOFF_BASE_MS * (2 ^ (IF k < 4 THEN k ELSE 4))
                                + j
                   /\ slept <= 16 * BACKOFF_BASE_MS + 249
              /\ Answered(i, {"exception"}) =>
                   /\ runs'[r].pc = "backoffNet"
                   /\ \E j \in 0..199 : slept = BACKOFF_BASE_MS + j
              /\ Answered(i, {"http"}) =>
                   /\ runs'[r].pc \in {"waitSlot", "settled"}
                   /\ runs'[r].pc = "waitSlot" =>
                        /\ Len(tickets') = Len(tickets) + 1
                        /\ tickets'[Len(tickets')].run = r
      /\ \A r \in DOMAIN runs :
           Woke429(r) \/ WokeNet(r) => now >= runs[r].wake ]_vars

\* The last attempt of a run got a 429 and the run sleeps the longest
\* backoff there is.
C33_Witness ==
  \E r \in DOMAIN runs :
    /\ runs[r].pc = "backoff429"
    /\ runs[r].attempt = 5
    /\ runs[r].wake =
         requests[runs[r].req].answered + 16 * BACKOFF_BASE_MS + 249

\* ------------------------------------------------------------------ C34
\* The unsettled operations of key k.
UnsettledOf(k) == {r \in DOMAIN runs : Unsettled(r) /\ runs[r].key = k}

\* C34: a key has at most one unsettled operation at any time and the
\* in-flight map holds an entry for a key exactly while an operation of that
\* key is unsettled, the entry being that operation; the map is empty once
\* every operation has settled; a step removes or replaces the record of an
\* operation only when that operation settles in it.
C34_OnePerKey ==
  /\ [](\A k \in 1..NumKeys :
          /\ Cardinality(UnsettledOf(k)) <= 1
          /\ k \in DOMAIN inFlightRequests <=> UnsettledOf(k) # {}
          /\ k \in DOMAIN inFlightRequests =>
               UnsettledOf(k) = {inFlightRequests[k]})
  /\ []((\A r \in DOMAIN runs : ~Unsettled(r)) => inFlightRequests = EmptyMap)
  /\ [][\A k \in DOMAIN inFlightRequests :
          (k \notin DOMAIN inFlightRequests'
             \/ inFlightRequests'[k] # inFlightRequests[k]) =>
            /\ Unsettled(inFlightRequests[k])
            /\ runs'[inFlightRequests[k]].pc = "settled"]_vars

\* An operation settled while an operation of another key, started before
\* that, was pending: the record of the pending one is still in the map.
C34_Witness ==
  \E r1, r2 \in DOMAIN runs :
    /\ runs[r1].pc = "settled"
    /\ Unsettled(r2)
    /\ runs[r1].settledCalls >= r2
    /\ runs[r1].key # runs[r2].key
    /\ inFlightRequests = MapSet(EmptyMap, runs[r2].key, r2)

\* ------------------------------------------------------------------ C35
\* The operation r fails in this step.
Fails(r) ==
  Unsettled(r) /\ runs'[r].pc = "settled" /\ runs'[r].result[1] = "error"
\* The call c is the first one with the key of r made after r settled.
FirstAfter(c, r) ==
  /\ calls[c].key = runs[r].key
  /\ runs[r].settledCalls < c
  /\ \A d \in (runs[r].settledCalls + 1)..(c - 1) : calls[d].key # calls[c].key

\* C35: the step in which an operation fails writes no cache entry and
\* refreshes none, the entry of its key, if there is one, is an expired one,
\* and every call that awaits the operation rejects with its error; the
\* first later call with that key starts a new operation; a call answered
\* from the cache is answered with the list of an operation that succeeded
\* less than CACHE_DURATION before it.
C35_FailureNotCached ==
  /\ [][\A r \in DOMAIN runs :
          Fails(r) =>
            /\ cache' = cache
            /\ runs[r].key \in DOMAIN cache =>
                 now - cache[runs[r].key].timestamp >= CACHE_DURATION
            /\ \A c \in 1..Len(calls) :
                 calls[c].op = r => calls'[c].outcome = runs'[r].result]_vars
  /\ [](\A r \in DOMAIN runs : \A c \in 1..Len(calls) :
          SettledError(r) /\ FirstAfter(c, r) =>
            /\ calls[c].how = "originator"
            /\ c \in DOMAIN runs)
  /\ [](\A c \in 1..Len(calls) :
          calls[c].how = "hit" =>
            \E r \in DOMAIN runs :
              /\ SettledOk(r)
              /\ runs[r].key = calls[c].key
              /\ calls[c].outcome = runs[r].result
              /\ runs[r].settledTime <= calls[c].time
              /\ calls[c].time < runs[r].settledTime + CACHE_DURATION)

\* An operation failed while the cache held the expired entry that an
\* earlier operation of its key had written: the entry is as it was.
C35_Witness ==
  \E r1, r2 \in DOMAIN runs :
    /\ SettledOk(r1)
    /\ SettledError(r2)
    /\ runs[r1].key = runs[r2].key
    /\ runs[r1].key \in DOMAIN cache
    /\ cache[runs[r1].key].timestamp = runs[r1].settledTime
    /\ runs[r2].settledTime >= runs[r1].settledTime + CACHE_DURATION

\* ------------------------------------------------------------------ C36
\* The states a slot request goes through, in order.
Progress(state) ==
  CASE state = "queued" -> 0
    [] state = "sleepInterval" -> 1
    [] state = "sleepWindow" -> 2
    [] state = "granted" -> 3

\* C36: every slot request is eventually granted, given that timers fire
\* and fetches settle, whatever the earlier requests did: again and again
\* every request made so far has been granted.  A request never goes back:
\* it sleeps at most once for the minimum interval and then at most once
\* for the window, and once granted it stays granted.
C36_SlotGranted ==
  /\ []<>(\A t \in 1..Len(tickets) : tickets[t].state = "granted")
  /\ [][\A t \in 1..Len(tickets) :
          \/ tickets'[t] = tickets[t]
          \/ Progress(tickets'[t].state) > Progress(tickets[t].state)]_vars

\* A request that slept until the oldest of the three grants before it was
\* WINDOW_MS old and was then granted, after requests of another query.
C36_Witness ==
  \E t \in 4..Len(tickets) :
    /\ tickets[t].state = "granted"
    /\ tickets[t].ts = tickets[t].wake
    /\ tickets[t].ts = tickets[t - 3].ts + WINDOW_MS
    /\ \E u \in 1..(t - 1) : tickets[u].run # tickets[t].run

\* ------------------------------------------------------------------ C37
\* Every load that was started has settled and none is scheduled: the
\* parameters are those of the most recently started load.
LoadsSettled ==
  /\ Len(loads) > 0
  /\ \A l \in 1..Len(loads) : loads[l].pc = "done"
  /\ ~appEffectPending
  /\ timeouts = {}
  /\ params = loads[Len(loads)].params

\* The load l ends in this step, with venues, with a failure or without
\* its city.
Ending(l) == loads[l].pc # "done" /\ loads'[l].pc = "done"

\* C37: once all started loads have settled the venue list is the result of
\* the most recently started load, the empty list when that load failed;
\* the loading flag is false only when no load is in progress; a load that
\* ends after a load started later than it has ended leaves the venue list
\* as it is.
C37_LatestLoadWins ==
  /\ [](LoadsSettled =>
          LET last == Len(loads) IN
          IF loads[last].result = "ok" THEN establishments.load = last
          ELSE establishments = NoVenues)
  /\ [](~isLoading => \A l \in 1..Len(loads) : loads[l].pc = "done")
  /\ [][\A l \in 1..Len(loads) :
          (Ending(l) /\ \E m \in (l + 1)..Len(loads) : loads[m].pc = "done")
            => establishments' = establishments]_<<vars, avars>>

\* ------------------------------------------------------------------ C38
\* The call has been made.
Called == probe.fn = "call" /\ probe.out # <<>>

\* C38: after a call the array passed as types holds the elements it held,
\* in ascending order, and every other argument is as it was; besides its
\* arguments the call changes the cache, the cursor and the state of the
\* limiter: the settings stay as they are, the record the call puts in the
\* in-flight map is gone once its operation has settled, and nothing of
\* this changes before the call.
C38_SortsTypesInPlace ==
  /\ [](Called =>
          LET before == probe.in
              after == probe.out[1]
          IN /\ Len(after.types) = Len(before.types)
             /\ {after.types[i] : i \in 1..Len(after.types)}
                  = {before.types[i] : i \in 1..Len(before.types)}
             /\ \A i, j \in 1..Len(after.types) :
                  i < j => Rank(after.types[i]) < Rank(after.types[j])
             /\ [after EXCEPT !.types = before.types] = before)
  /\ [](env = DefaultEnv)
  /\ []((\A r \in DOMAIN runs : ~Unsettled(r)) => inFlightRequests = EmptyMap)
  /\ [][~Called' => UNCHANGED <<cache, currentInstanceIndex, lastRequestTs,
                                recentRequests, rateLimiterChain,
                                inFlightRequests>>]_<<vars, pvars>>

\* The call was given the categories in the order in which the application
\* lists them, its operation has settled and the caller's array is sorted.
C38_Witness ==
  /\ Called
  /\ probe.in.types = <<"bar", "wine-cellar", "nightclub", "supermarket",
                        "restaurant", "liquor-store">>
  /\ probe.out[1].types = <<"bar", "liquor-store", "nightclub", "restaurant",
                            "supermarket", "wine-cellar">>
  /\ 1 \in DOMAIN runs /\ ~Unsettled(1)


\* ------------------------------------------------------------------ C39
\* The search s settles in this step with a failure of its request.
SearchFails(s) ==
  /\ searches[s].pc = "fetching"
  /\ searches'[s].pc = "done"
  /\ sbound'.failures < sbound.failures

\* C39: two requests sent to the geocoding service are at least
\* MIN_REQUEST_INTERVAL apart; a search whose request fails resolves with
\* the empty list and leaves the cache as it is; a search that resolved
\* without an answer of the service resolved with the empty list or with
\* what the cache held; no request is sent for a query of fewer than 2
\* characters.
C39_RequestSpacing ==
  /\ [](\A i, j \in 1..Len(cityRequests) :
          i < j => cityRequests[j].time - cityRequests[i].time
                     >= MIN_REQUEST_INTERVAL)
  /\ [][\A s \in 1..Len(searches) :
          SearchFails(s) => /\ searches'[s].value = <<>>
                            /\ searchCache' = searchCache]_<<vars, svars>>
  /\ [](\A r \in 1..Len(cityRequests) :
          Len(searches[cityRequests[r].search].query) >= 2)
  /\ [](\A s \in 1..Len(searches) :
          Len(searches[s].query) < 2 =>
            searches[s].pc = "done" /\ searches[s].value = <<>>)


\* ------------------------------------------------------------------ C40
\* C40: while stop() has run and start() was not called since, no watch is
\* active and no restart timer is pending, and no watch is started; the
\* delay of a restart timer is twice the delay of the timer set before it,
\* twice BACKOFF_START for the first timer after a start, and at most
\* BACKOFF_MAX.
C40_StopIsFinal ==
  /\ [](stopped => watching = {} /\ restartTimers = {})
  /\ [][stopped => watchCount' = watchCount]_<<vars, lvars>>
  /\ [][\A t \in restartTimers' \ restartTimers :
          /\ t.delay = Min(2 * backoffRef, BACKOFF_MAX)
          /\ t.due = now + t.delay
          /\ backoffRef' = t.delay]_<<vars, lvars>>
  /\ [][backoffRef' = backoffRef \/ backoffRef' = BACKOFF_START
          \/ restartCount' > restartCount]_<<vars, lvars>>
  /\ [](backoffRef \in {BACKOFF_START, 10000, 20000, 40000, BACKOFF_MAX})

====
